---- MODULE Spec2Model ----
(***************************************************************************)
(* Meri: an 8-bit virtual CPU (src/src/run.rs) and its assembler           *)
(* (src/src/main.rs).  The CPU state is the struct CPU; one Step is one    *)
(* iteration of the while loop of run_program.                             *)
(***************************************************************************)
EXTENDS Integers, Sequences, FiniteSets, TLC

VARIABLES
    source,           \* the assembly text given to lexer, a sequence of characters
    program_vector,   \* the Vec<u8> handed to run_emulation
    registers,        \* CPU.registers
    memory,           \* CPU.memory (program memory)
    ram,              \* CPU.ram
    program_counter,  \* CPU.program_counter
    flags,            \* CPU.flags
    status,           \* where the process is: "main", "loading", "running", or how it ended
    error,            \* the Err(..) or panic that ended the process: its kind and line
    last,             \* the last iteration of the run loop: what it fetched and the CPU before it
    overflow_checks   \* whether the build has integer overflow checks (dev profile) or not (release)

vars == <<source, program_vector, registers, memory, ram, program_counter,
          flags, status, error, last, overflow_checks>>

(***************************************************************************)
(* Constants of the program                                                *)
(***************************************************************************)
MEMORY_SIZE == 256
INSTRUCTION_SIZE == 4
FLAG_ZERO == 1
FLAG_CARRY == 2
REGISTER_COUNT == 4
LEXER_MEMORY_SIZE == 256
LEXER_REGISTER_COUNT == 4
U8_MAX == 255

Byte == 0..U8_MAX

(***************************************************************************)
(* u8 arithmetic and bit operations                                        *)
(***************************************************************************)
Bit(x, k) == (x \div (2 ^ k)) % 2

RECURSIVE BitwiseFrom(_, _, _, _)
BitwiseFrom(k, x, y, both) ==
    IF k > 7 THEN 0
    ELSE (2 ^ k) * (IF both THEN Bit(x, k) * Bit(y, k)
                    ELSE (IF Bit(x, k) + Bit(y, k) > 0 THEN 1 ELSE 0))
         + BitwiseFrom(k + 1, x, y, both)

BitAnd(x, y) == BitwiseFrom(0, x, y, TRUE)
BitOr(x, y) == BitwiseFrom(0, x, y, FALSE)
BitNot(x) == U8_MAX - x

\* u8::overflowing_add and u8::overflowing_sub: the wrapped result and whether it wrapped
overflowing_add(x, y) == [result |-> (x + y) % 256, carry |-> x + y > U8_MAX]
\* overflowing_sub with the borrow also reported when the operands are equal
overflowing_sub_BorrowOnEqual(x, y) == [result |-> (x - y + 256) % 256, carry |-> x <= y]

overflowing_sub(x, y) == [result |-> (x - y + 256) % 256, carry |-> x < y]

\* the operators + and += on u8: an overflow panics in a build with overflow
\* checks and wraps in a build without them
AddU8(x, y, checks) ==
    IF x + y > U8_MAX
    THEN (IF checks THEN [panic |-> TRUE, value |-> x]
          ELSE [panic |-> FALSE, value |-> (x + y) % 256])
    ELSE [panic |-> FALSE, value |-> x + y]

(***************************************************************************)
(* impl CPU: the flag helpers                                              *)
(***************************************************************************)
set_flag(f, flag) == BitOr(f, flag)
clear_flag(f, flag) == BitAnd(f, BitNot(flag))
is_flag_set(f, flag) == BitAnd(f, flag) # 0

\* update_flags with the test of the result inverted
update_flags_ZeroInverted(f, result, carry_out) ==
    LET z == IF result # 0 THEN set_flag(f, FLAG_ZERO) ELSE clear_flag(f, FLAG_ZERO)
    IN IF carry_out THEN set_flag(z, FLAG_CARRY) ELSE clear_flag(z, FLAG_CARRY)

update_flags(f, result, carry_out) ==
    LET z == IF result = 0 THEN set_flag(f, FLAG_ZERO) ELSE clear_flag(f, FLAG_ZERO)
    IN IF carry_out THEN set_flag(z, FLAG_CARRY) ELSE clear_flag(z, FLAG_CARRY)

(***************************************************************************)
(* impl TryFrom<u8> for Instructions                                       *)
(***************************************************************************)
try_from(value) ==
    CASE value = 0 -> "Mov"
      [] value = 1 -> "MovImm"
      [] value = 2 -> "Add"
      [] value = 3 -> "Sub"
      [] value = 4 -> "Inc"
      [] value = 5 -> "Dec"
      [] value = 6 -> "Cmp"
      [] value = 7 -> "JmpAddr"
      [] value = 8 -> "JmpEq"
      [] value = 9 -> "JmpNe"
      [] value = 10 -> "JmpGt"
      [] value = 11 -> "HLT"
      [] OTHER -> "UnknownOpcode"

(***************************************************************************)
(* Operand access.  c is the CPU: [registers, ram, program_counter, flags] *)
(***************************************************************************)
\* get_operand_value reading 0 for a register that does not exist
get_operand_value_DefaultsToZero(c, operand_type, address_or_index) ==
    IF operand_type = "Register"
    THEN (IF address_or_index >= REGISTER_COUNT
          THEN [ok |-> TRUE, err |-> "none", value |-> 0]
          ELSE [ok |-> TRUE, err |-> "none", value |-> c.registers[address_or_index]])
    ELSE (IF address_or_index >= MEMORY_SIZE
          THEN [ok |-> FALSE, err |-> "InvalidMemoryAddress", value |-> 0]
          ELSE [ok |-> TRUE, err |-> "none", value |-> c.ram[address_or_index]])

\* get_operand_value refusing the last RAM address
get_operand_value_LastCellRejected(c, operand_type, address_or_index) ==
    IF operand_type = "Register"
    THEN (IF address_or_index >= REGISTER_COUNT
          THEN [ok |-> FALSE, err |-> "InvalidRegisterIndex", value |-> 0]
          ELSE [ok |-> TRUE, err |-> "none", value |-> c.registers[address_or_index]])
    ELSE (IF address_or_index >= MEMORY_SIZE - 1
          THEN [ok |-> FALSE, err |-> "InvalidMemoryAddress", value |-> 0]
          ELSE [ok |-> TRUE, err |-> "none", value |-> c.ram[address_or_index]])

get_operand_value(c, operand_type, address_or_index) ==
    IF operand_type = "Register"
    THEN (IF address_or_index >= REGISTER_COUNT
          THEN [ok |-> FALSE, err |-> "InvalidRegisterIndex", value |-> 0]
          ELSE [ok |-> TRUE, err |-> "none", value |-> c.registers[address_or_index]])
    ELSE (IF address_or_index >= MEMORY_SIZE
          THEN [ok |-> FALSE, err |-> "InvalidMemoryAddress", value |-> 0]
          ELSE [ok |-> TRUE, err |-> "none", value |-> c.ram[address_or_index]])

\* set_operand_value with the registers mapped at the first RAM addresses
set_operand_value_RegistersMapped(c, operand_type, address_or_index, value) ==
    IF operand_type = "Register"
    THEN (IF address_or_index >= REGISTER_COUNT
          THEN [ok |-> FALSE, err |-> "InvalidRegisterIndex", cpu |-> c]
          ELSE [ok |-> TRUE, err |-> "none",
                cpu |-> [c EXCEPT !.registers[address_or_index] = value]])
    ELSE (IF address_or_index >= MEMORY_SIZE
          THEN [ok |-> FALSE, err |-> "InvalidMemoryAddress", cpu |-> c]
          ELSE IF address_or_index < REGISTER_COUNT
          THEN [ok |-> TRUE, err |-> "none",
                cpu |-> [c EXCEPT !.registers[address_or_index] = value]]
          ELSE [ok |-> TRUE, err |-> "none",
                cpu |-> [c EXCEPT !.ram[address_or_index] = value]])

set_operand_value(c, operand_type, address_or_index, value) ==
    IF operand_type = "Register"
    THEN (IF address_or_index >= REGISTER_COUNT
          THEN [ok |-> FALSE, err |-> "InvalidRegisterIndex", cpu |-> c]
          ELSE [ok |-> TRUE, err |-> "none",
                cpu |-> [c EXCEPT !.registers[address_or_index] = value]])
    ELSE (IF address_or_index >= MEMORY_SIZE
          THEN [ok |-> FALSE, err |-> "InvalidMemoryAddress", cpu |-> c]
          ELSE [ok |-> TRUE, err |-> "none",
                cpu |-> [c EXCEPT !.ram[address_or_index] = value]])

\* the results of execute_instruction
Ok(c) == [outcome |-> "Ok", err |-> "none", cpu |-> c]
Err(c, e) == [outcome |-> "Err", err |-> e, cpu |-> c]
Panic(c, e) == [outcome |-> "Panic", err |-> e, cpu |-> c]

\* Store updating the flags from the value it writes
Store_UpdatesFlags(c, operand_type, address_or_index, value) ==
    LET w == set_operand_value(c, operand_type, address_or_index, value)
    IN IF w.ok THEN Ok([w.cpu EXCEPT !.flags = update_flags(c.flags, value, FALSE)])
       ELSE Err(w.cpu, w.err)

\* `set_operand_value(..)?; Ok(())`
Store(c, operand_type, address_or_index, value) ==
    LET w == set_operand_value(c, operand_type, address_or_index, value)
    IN IF w.ok THEN Ok(w.cpu) ELSE Err(w.cpu, w.err)

\* JumpTo landing behind the instruction at the target
JumpTo_PastTarget(c, dest_val_or_addr) ==
    Ok([c EXCEPT !.program_counter = (dest_val_or_addr + INSTRUCTION_SIZE) % 256])

\* `cpu.program_counter = dest_val_or_addr`
JumpTo(c, dest_val_or_addr) == Ok([c EXCEPT !.program_counter = dest_val_or_addr])

\* `cpu.program_counter += INSTRUCTION_SIZE`
AdvancePC(c, checks) ==
    LET n == AddU8(c.program_counter, INSTRUCTION_SIZE, checks)
    IN IF n.panic THEN Panic(c, "AddOverflow")
       ELSE Ok([c EXCEPT !.program_counter = n.value])

\* Arith updating the flags from the source before it has read the destination
Arith_FlagsBeforeDestination(c, opcode, dest_type, dest_val_or_addr, src_type, src_val_or_addr) ==
    LET binary == opcode \in {"Add", "Sub"}
        s == IF binary THEN get_operand_value(c, src_type, src_val_or_addr)
             ELSE [ok |-> TRUE, err |-> "none", value |-> 1]
        d == get_operand_value(c, dest_type, dest_val_or_addr)
        r == IF opcode \in {"Add", "Inc"} THEN overflowing_add(d.value, s.value)
             ELSE overflowing_sub(d.value, s.value)
        c2 == [c EXCEPT !.flags = update_flags(c.flags, r.result, r.carry)]
    IN IF ~s.ok THEN Err(c, s.err)
       ELSE IF ~d.ok THEN Err(c2, d.err)
       ELSE Store(c2, dest_type, dest_val_or_addr, r.result)

\* the arms Add, Sub, Inc, Dec: read the source (Add and Sub only), read the
\* destination, compute, update the flags, write the destination
Arith(c, opcode, dest_type, dest_val_or_addr, src_type, src_val_or_addr) ==
    LET binary == opcode \in {"Add", "Sub"}
        s == IF binary THEN get_operand_value(c, src_type, src_val_or_addr)
             ELSE [ok |-> TRUE, err |-> "none", value |-> 1]
        d == get_operand_value(c, dest_type, dest_val_or_addr)
        r == IF opcode \in {"Add", "Inc"} THEN overflowing_add(d.value, s.value)
             ELSE overflowing_sub(d.value, s.value)
        c2 == [c EXCEPT !.flags = update_flags(c.flags, r.result, r.carry)]
    IN IF ~s.ok THEN Err(c, s.err)
       ELSE IF ~d.ok THEN Err(c, d.err)
       ELSE Store(c2, dest_type, dest_val_or_addr, r.result)

\* Compare writing the difference to operand1, as Sub does
Compare_StoresDifference(c, dest_type, dest_val_or_addr, src_type, src_val_or_addr) ==
    Arith(c, "Sub", dest_type, dest_val_or_addr, src_type, src_val_or_addr)

\* the arm Cmp: read operand1, read operand2, subtract, update the flags
Compare(c, dest_type, dest_val_or_addr, src_type, src_val_or_addr) ==
    LET op1 == get_operand_value(c, dest_type, dest_val_or_addr)
        op2 == get_operand_value(c, src_type, src_val_or_addr)
        r == overflowing_sub(op1.value, op2.value)
    IN IF ~op1.ok THEN Err(c, op1.err)
       ELSE IF ~op2.ok THEN Err(c, op2.err)
       ELSE Ok([c EXCEPT !.flags = update_flags(c.flags, r.result, r.carry)])

\* JumpCondition with JmpGt looking at the Zero flag alone
JumpCondition_GtIgnoresCarry(opcode, f) ==
    CASE opcode = "JmpEq" -> is_flag_set(f, FLAG_ZERO)
      [] opcode = "JmpNe" -> ~is_flag_set(f, FLAG_ZERO)
      [] opcode = "JmpGt" -> ~is_flag_set(f, FLAG_ZERO)
      [] OTHER -> TRUE

\* the arms JmpEq, JmpNe, JmpGt
JumpCondition(opcode, f) ==
    CASE opcode = "JmpEq" -> is_flag_set(f, FLAG_ZERO)
      [] opcode = "JmpNe" -> ~is_flag_set(f, FLAG_ZERO)
      [] opcode = "JmpGt" -> ~is_flag_set(f, FLAG_ZERO) /\ ~is_flag_set(f, FLAG_CARRY)
      [] OTHER -> TRUE

ConditionalJump(c, opcode, dest_val_or_addr, checks) ==
    IF JumpCondition(opcode, c.flags) THEN JumpTo(c, dest_val_or_addr)
    ELSE AdvancePC(c, checks)

execute_instruction(c, opcode, dest_type, dest_val_or_addr, src_type, src_val_or_addr, checks) ==
    CASE opcode = "Mov" ->
            LET s == get_operand_value(c, src_type, src_val_or_addr)
            IN IF ~s.ok THEN Err(c, s.err)
               ELSE Store(c, dest_type, dest_val_or_addr, s.value)
      [] opcode = "MovImm" ->
            Store(c, dest_type, dest_val_or_addr, src_val_or_addr)
      [] opcode \in {"Add", "Sub", "Inc", "Dec"} ->
            Arith(c, opcode, dest_type, dest_val_or_addr, src_type, src_val_or_addr)
      [] opcode = "Cmp" ->
            Compare(c, dest_type, dest_val_or_addr, src_type, src_val_or_addr)
      [] opcode = "JmpAddr" -> JumpTo(c, dest_val_or_addr)
      [] opcode \in {"JmpEq", "JmpNe", "JmpGt"} ->
            ConditionalJump(c, opcode, dest_val_or_addr, checks)
      [] OTHER -> Ok(c)

(***************************************************************************)
(* The assembler (main.rs).  A text is a sequence of one-character strings *)
(***************************************************************************)
Whitespace == {" ", "\t", "\r"}

StartsWithAt(s, i, pat) ==
    /\ i + Len(pat) - 1 <= Len(s)
    /\ SubSeq(s, i, i + Len(pat) - 1) = pat

\* the index of the first occurrence of pat in s at or after i, 0 when there is none
RECURSIVE FindFrom(_, _, _)
FindFrom(s, i, pat) ==
    IF i + Len(pat) - 1 > Len(s) THEN 0
    ELSE IF StartsWithAt(s, i, pat) THEN i
    ELSE FindFrom(s, i + 1, pat)

\* str::split: the pieces between the occurrences of pat, empty pieces included
RECURSIVE split(_, _)
split(s, pat) ==
    LET i == FindFrom(s, 1, pat)
    IN IF i = 0 THEN <<s>>
       ELSE <<SubSeq(s, 1, i - 1)>> \o split(SubSeq(s, i + Len(pat), Len(s)), pat)

\* str::lines: split at line feeds, a final empty piece is no line, and a
\* carriage return that ends a line is dropped
lines(s) ==
    LET p == split(s, <<"\n">>)
        q == IF p[Len(p)] = <<>> THEN SubSeq(p, 1, Len(p) - 1) ELSE p
    IN [k \in 1..Len(q) |->
          IF q[k] # <<>> /\ q[k][Len(q[k])] = "\r" THEN SubSeq(q[k], 1, Len(q[k]) - 1)
          ELSE q[k]]

RECURSIVE trim_start(_)
trim_start(s) == IF s # <<>> /\ Head(s) \in Whitespace THEN trim_start(Tail(s)) ELSE s

RECURSIVE trim_end(_)
trim_end(s) ==
    IF s # <<>> /\ s[Len(s)] \in Whitespace THEN trim_end(SubSeq(s, 1, Len(s) - 1)) ELSE s

trim(s) == trim_end(trim_start(s))

\* the length of the longest prefix of s without whitespace
RECURSIVE WordLen(_)
WordLen(s) == IF s = <<>> \/ Head(s) \in Whitespace THEN 0 ELSE 1 + WordLen(Tail(s))

\* str::split_whitespace: the maximal runs of characters that are no whitespace
RECURSIVE split_whitespace(_)
split_whitespace(s) ==
    LET t == trim_start(s)
        n == WordLen(t)
    IN IF t = <<>> THEN <<>>
       ELSE <<SubSeq(t, 1, n)>> \o split_whitespace(SubSeq(t, n + 1, Len(t)))

Digits == <<"0", "1", "2", "3", "4", "5", "6", "7", "8", "9">>
IsDigit(ch) == \E d \in 1..10 : Digits[d] = ch
DigitValue(ch) == (CHOOSE d \in 1..10 : Digits[d] = ch) - 1

Parsed(v) == [ok |-> TRUE, err |-> "none", value |-> v]
ParseError(e) == [ok |-> FALSE, err |-> e, value |-> 0]

\* the digit loop of str::parse::<u8>: the first character that is no digit, or
\* the first digit that takes the value above u8::MAX, ends it with an error
RECURSIVE ParseDigits(_, _)
ParseDigits(s, acc) ==
    IF s = <<>> THEN Parsed(acc)
    ELSE IF ~IsDigit(Head(s)) THEN ParseError("InvalidDigit")
    ELSE IF acc * 10 + DigitValue(Head(s)) > U8_MAX THEN ParseError("PosOverflow")
    ELSE ParseDigits(Tail(s), acc * 10 + DigitValue(Head(s)))

\* str::parse::<u8>: an optional plus sign, then one or more decimal digits
parse_u8(s) ==
    IF s = <<>> THEN ParseError("Empty")
    ELSE IF s = <<"+">> \/ s = <<"-">> THEN ParseError("InvalidDigit")
    ELSE ParseDigits(IF Head(s) = "+" THEN Tail(s) ELSE s, 0)

Operand(v, t) == [ok |-> TRUE, err |-> "none", value |-> v, type |-> t]
OperandError(e) == [ok |-> FALSE, err |-> e, value |-> 0, type |-> "none"]

\* register_operand without the check against LEXER_REGISTER_COUNT
register_operand_Unbounded(reg_idx) ==
    IF ~reg_idx.ok THEN OperandError("InvalidRegisterIndex")
    ELSE Operand(reg_idx.value, "Register")

\* register_operand accepting the index LEXER_REGISTER_COUNT itself
register_operand_OffByOne(reg_idx) ==
    IF ~reg_idx.ok THEN OperandError("InvalidRegisterIndex")
    ELSE IF reg_idx.value > LEXER_REGISTER_COUNT THEN OperandError("RegisterIndexOutOfBounds")
    ELSE Operand(reg_idx.value, "Register")

\* the branch for an operand that starts with R; reg_idx is what parse::<u8>
\* made of the characters behind the R
register_operand(reg_idx) ==
    IF ~reg_idx.ok THEN OperandError("InvalidRegisterIndex")
    ELSE IF reg_idx.value >= LEXER_REGISTER_COUNT THEN OperandError("RegisterIndexOutOfBounds")
    ELSE Operand(reg_idx.value, "Register")

\* the branch for an operand that starts with M
memory_operand(mem_addr) ==
    IF ~mem_addr.ok THEN OperandError("InvalidMemoryAddress")
    ELSE IF mem_addr.value >= LEXER_MEMORY_SIZE THEN OperandError("MemoryAddressOutOfBounds")
    ELSE Operand(mem_addr.value, "Memory")

parse_reg_mem_operand(operand_str) ==
    IF operand_str # <<>> /\ Head(operand_str) = "R"
    THEN register_operand(parse_u8(Tail(operand_str)))
    ELSE IF operand_str # <<>> /\ Head(operand_str) = "M"
    THEN memory_operand(parse_u8(Tail(operand_str)))
    ELSE OperandError("ExpectedRegisterOrMemory")

\* the mnemonics the lexer matches, as the characters of their string literals
MnemonicChars ==
    [Mov |-> <<"M", "o", "v">>,
     MovImm |-> <<"M", "o", "v", "I", "m", "m">>,
     Add |-> <<"A", "d", "d">>,
     Sub |-> <<"S", "u", "b">>,
     Inc |-> <<"I", "n", "c">>,
     Dec |-> <<"D", "e", "c">>,
     Cmp |-> <<"C", "m", "p">>,
     JmpAddr |-> <<"J", "m", "p", "A", "d", "d", "r">>,
     JmpEq |-> <<"J", "m", "p", "E", "q">>,
     JmpNe |-> <<"J", "m", "p", "N", "e">>,
     JmpGt |-> <<"J", "m", "p", "G", "t">>,
     HLT |-> <<"H", "L", "T">>]

Mnemonics == DOMAIN MnemonicChars

\* `match opcode_str`: the mnemonic whose literal the token equals
MatchMnemonic(opcode_str) ==
    IF \E m \in Mnemonics : MnemonicChars[m] = opcode_str
    THEN CHOOSE m \in Mnemonics : MnemonicChars[m] = opcode_str
    ELSE "unknown"

\* lexer_opcode_val with the opcodes of JmpEq and JmpNe exchanged
lexer_opcode_val_JmpEqNeSwapped(mnemonic) ==
    CASE mnemonic = "Mov" -> 0
      [] mnemonic = "Add" -> 2
      [] mnemonic = "Sub" -> 3
      [] mnemonic = "Cmp" -> 6
      [] mnemonic = "MovImm" -> 1
      [] mnemonic = "Inc" -> 4
      [] mnemonic = "Dec" -> 5
      [] mnemonic = "JmpAddr" -> 7
      [] mnemonic = "JmpEq" -> 9
      [] mnemonic = "JmpNe" -> 8
      [] mnemonic = "JmpGt" -> 10
      [] mnemonic = "HLT" -> 11

\* the opcode byte the lexer emits for a mnemonic
lexer_opcode_val(mnemonic) ==
    CASE mnemonic = "Mov" -> 0
      [] mnemonic = "Add" -> 2
      [] mnemonic = "Sub" -> 3
      [] mnemonic = "Cmp" -> 6
      [] mnemonic = "MovImm" -> 1
      [] mnemonic = "Inc" -> 4
      [] mnemonic = "Dec" -> 5
      [] mnemonic = "JmpAddr" -> 7
      [] mnemonic = "JmpEq" -> 8
      [] mnemonic = "JmpNe" -> 9
      [] mnemonic = "JmpGt" -> 10
      [] mnemonic = "HLT" -> 11

\* `if t == OperandType::Memory { mode_byte |= bit }`
mode_with(mode_byte, operand_type, bit) ==
    IF operand_type = "Memory" THEN BitOr(mode_byte, bit) ELSE mode_byte

\* the result of one statement: its 4 bytes and how many tokens it consumed
Encoded(bytes, used) == [ok |-> TRUE, err |-> "none", bytes |-> bytes, used |-> used]
Rejected(e) == [ok |-> FALSE, err |-> e, bytes |-> <<>>, used |-> 0]

\* encode_two_operands with the two mode bits exchanged
encode_two_operands_ModeBitsSwapped(opcode_val, d, s) ==
    IF ~d.ok THEN Rejected(d.err)
    ELSE IF ~s.ok THEN Rejected(s.err)
    ELSE Encoded(<<opcode_val, mode_with(mode_with(0, d.type, 2), s.type, 1),
                   d.value, s.value>>, 3)

\* the bytes of Mov, Add, Sub and Cmp from their two operands
encode_two_operands(opcode_val, d, s) ==
    IF ~d.ok THEN Rejected(d.err)
    ELSE IF ~s.ok THEN Rejected(s.err)
    ELSE Encoded(<<opcode_val, mode_with(mode_with(0, d.type, 1), s.type, 2),
                   d.value, s.value>>, 3)

\* the bytes of MovImm from its operand and its immediate value
encode_immediate(opcode_val, d, v) ==
    IF ~d.ok THEN Rejected(d.err)
    ELSE IF ~v.ok THEN Rejected("InvalidImmediateValue")
    ELSE Encoded(<<opcode_val, mode_with(0, d.type, 1), d.value, v.value>>, 3)

\* the bytes of Inc and Dec from their operand
encode_one_operand(opcode_val, op) ==
    IF ~op.ok THEN Rejected(op.err)
    ELSE Encoded(<<opcode_val, mode_with(0, op.type, 1), op.value, 0>>, 2)

\* the bytes of a jump from its address
encode_jump(opcode_val, a) ==
    IF ~a.ok THEN Rejected("InvalidJumpAddress")
    ELSE Encoded(<<opcode_val, 0, a.value, 0>>, 2)

\* the arms of `match opcode_str`; tokens[1] is the mnemonic
encode_statement(mnemonic, tokens) ==
    CASE mnemonic \in {"Mov", "Add", "Sub", "Cmp"} ->
            IF Len(tokens) < 2 THEN Rejected("MissingDestinationOperand")
            ELSE IF Len(tokens) < 3 THEN Rejected("MissingSourceOperand")
            ELSE encode_two_operands(lexer_opcode_val(mnemonic),
                                     parse_reg_mem_operand(tokens[2]),
                                     parse_reg_mem_operand(tokens[3]))
      [] mnemonic = "MovImm" ->
            IF Len(tokens) < 2 THEN Rejected("MissingDestinationOperand")
            ELSE IF Len(tokens) < 3 THEN Rejected("MissingImmediateValue")
            ELSE encode_immediate(lexer_opcode_val(mnemonic),
                                  parse_reg_mem_operand(tokens[2]), parse_u8(tokens[3]))
      [] mnemonic \in {"Inc", "Dec"} ->
            IF Len(tokens) < 2 THEN Rejected("MissingOperand")
            ELSE encode_one_operand(lexer_opcode_val(mnemonic),
                                    parse_reg_mem_operand(tokens[2]))
      [] mnemonic \in {"JmpAddr", "JmpEq", "JmpNe", "JmpGt"} ->
            IF Len(tokens) < 2 THEN Rejected("MissingAddress")
            ELSE encode_jump(lexer_opcode_val(mnemonic), parse_u8(tokens[2]))
      [] mnemonic = "HLT" -> Encoded(<<lexer_opcode_val(mnemonic), 0, 0, 0>>, 1)
      [] OTHER -> Rejected("UnknownOpcode")

\* check_no_more_tokens letting every statement through
check_no_more_tokens_Ignored(r, token_count) == r

\* `if tokens.next().is_some()`: a token left over after the operands
check_no_more_tokens(r, token_count) ==
    IF r.ok /\ token_count > r.used THEN Rejected("TooManyOperands") ELSE r

\* one statement: the match, then the check for tokens left over
lex_statement(tokens) ==
    check_no_more_tokens(encode_statement(MatchMnemonic(tokens[1]), tokens), Len(tokens))

\* the results of lexer; line is the 1-based line number an error carries
Assembled(program) == [ok |-> TRUE, program |-> program, err |-> [kind |-> "none", line |-> 0]]
AssemblyError(e, line) == [ok |-> FALSE, program |-> <<>>, err |-> [kind |-> e, line |-> line]]

RECURSIVE lex_parts(_, _, _)

\* extend_program reporting the 0-based index of the line
extend_program_ZeroBasedLine(r, rest, line_num, program) ==
    IF ~r.ok THEN AssemblyError(r.err, line_num)
    ELSE lex_parts(rest, line_num, program \o r.bytes)

\* extend_program going on with the next part after a statement that failed
extend_program_SkipsFailed(r, rest, line_num, program) ==
    IF ~r.ok THEN lex_parts(rest, line_num, program)
    ELSE lex_parts(rest, line_num, program \o r.bytes)

\* `program.extend_from_slice(..)` with the bytes of a statement, or its error with the line
extend_program(r, rest, line_num, program) ==
    IF ~r.ok THEN AssemblyError(r.err, line_num + 1)
    ELSE lex_parts(rest, line_num, program \o r.bytes)

\* one part of a line: an empty part is skipped
lex_part(trimmed_part, rest, line_num, program) ==
    IF trimmed_part = <<>> THEN lex_parts(rest, line_num, program)
    ELSE extend_program(lex_statement(split_whitespace(trimmed_part)), rest, line_num, program)

\* the loop over the parts of one line; line_num is the 0-based index of the line
lex_parts(parts, line_num, program) ==
    IF parts = <<>> THEN Assembled(program)
    ELSE lex_part(trim(Head(parts)), Tail(parts), line_num, program)

RECURSIVE lex_lines(_, _, _)

\* the lines after one whose parts r are done: an error ends the loop
next_line(r, rest, line_num) ==
    IF ~r.ok THEN r ELSE lex_lines(rest, line_num + 1, r.program)

\* one line without its comment: an empty one is skipped
lex_line(instruction_part, rest, line_num, program) ==
    IF instruction_part = <<>> THEN lex_lines(rest, line_num + 1, program)
    ELSE next_line(lex_parts(split(instruction_part, <<";">>), line_num, program),
                   rest, line_num)

\* the loop over the lines
lex_lines(ls, line_num, program) ==
    IF ls = <<>> THEN Assembled(program)
    ELSE lex_line(trim(Head(split(Head(ls), <<"/", "/">>))), Tail(ls), line_num, program)

lexer(text) == lex_lines(lines(text), 0, <<>>)

(***************************************************************************)
\* load_program without its check `i < cpu.memory.len()`
load_program_Unchecked(mem, program) ==
    [i \in 0..((IF Len(program) > MEMORY_SIZE THEN Len(program) ELSE MEMORY_SIZE) - 1) |->
        IF i < Len(program) THEN program[i + 1] ELSE mem[i]]

\* load_program: the first MEMORY_SIZE bytes of the program, the rest of the
\* memory as it was; anything beyond MEMORY_SIZE is dropped with a warning
load_program(mem, program) ==
    [i \in 0..(MEMORY_SIZE - 1) |-> IF i < Len(program) THEN program[i + 1] ELSE mem[i]]

\* the CPU as run_emulation constructs it
ZeroRegisters == [i \in 0..(REGISTER_COUNT - 1) |-> 0]
ZeroMemory == [i \in 0..(MEMORY_SIZE - 1) |-> 0]
\* NewCPU with the Carry flag left set
NewCPU_CarrySet ==
    [registers |-> ZeroRegisters, ram |-> ZeroMemory, program_counter |-> 0, flags |-> FLAG_CARRY]

NewCPU == [registers |-> ZeroRegisters, ram |-> ZeroMemory, program_counter |-> 0, flags |-> 0]

\* the mode byte's decoding
dest_type_of(mode_byte) == IF BitAnd(mode_byte, 1) # 0 THEN "Memory" ELSE "Register"
src_type_of(mode_byte) == IF BitAnd(mode_byte, 2) # 0 THEN "Memory" ELSE "Register"

IsJump(opcode) == opcode \in {"JmpAddr", "JmpEq", "JmpNe", "JmpGt"}

\* what an iteration that fetched nothing records as its instruction
NotFetched == [opcode_val |-> -1, mode_byte |-> -1, operand1_val |-> -1, operand2_val |-> -1]

Iteration(kind, st, e, c, f) == [kind |-> kind, status |-> st, err |-> e, cpu |-> c, fetched |-> f]

\* AfterExecute advancing the program counter after jumps too
AfterExecute_AlwaysAdvances(c, opcode, checks, f) ==
    LET a == AdvancePC(c, checks)
    IN IF a.outcome = "Panic" THEN Iteration("advance_panic", "panic", a.err, a.cpu, f)
       ELSE Iteration("executed", "running", "none", a.cpu, f)

\* the end of an iteration that executed its instruction: jumps have set the
\* program counter themselves, every other instruction advances it
AfterExecute(c, opcode, checks, f) ==
    IF IsJump(opcode) THEN Iteration("executed", "running", "none", c, f)
    ELSE LET a == AdvancePC(c, checks)
         IN IF a.outcome = "Panic" THEN Iteration("advance_panic", "panic", a.err, a.cpu, f)
            ELSE Iteration("executed", "running", "none", a.cpu, f)

\* incomplete_instruction asking for the opcode byte alone
incomplete_instruction_OpcodeOnly(pc, program_size) == pc + 1 > program_size

\* `(cpu.program_counter as usize) + (INSTRUCTION_SIZE as usize) > program_size`
incomplete_instruction(pc, program_size) == pc + INSTRUCTION_SIZE > program_size

\* one evaluation of the while condition of run_program and, when it holds,
\* one pass through the loop body
run_program_iteration(c, mem, program_size, checks) ==
    LET pc == c.program_counter
        a1 == AddU8(pc, 1, checks)
        a2 == AddU8(pc, 2, checks)
        a3 == AddU8(pc, 3, checks)
        f == [opcode_val |-> mem[pc], mode_byte |-> mem[a1.value],
              operand1_val |-> mem[a2.value], operand2_val |-> mem[a3.value]]
        opcode == try_from(f.opcode_val)
        x == execute_instruction(c, opcode, dest_type_of(f.mode_byte), f.operand1_val,
                                 src_type_of(f.mode_byte), f.operand2_val, checks)
    IN IF ~(pc < program_size) THEN Iteration("exit", "ended", "none", c, NotFetched)
       ELSE IF incomplete_instruction(pc, program_size)
            THEN Iteration("incomplete", "error", "IncompleteInstruction", c, NotFetched)
       ELSE IF a1.panic \/ a2.panic \/ a3.panic
            THEN Iteration("fetch_panic", "panic", "AddOverflow", c, NotFetched)
       ELSE IF opcode = "UnknownOpcode"
            THEN Iteration("unknown_opcode", "error", "UnknownOpcode", c, f)
       ELSE IF opcode = "HLT" THEN Iteration("halt", "halted", "none", c, f)
       ELSE IF x.outcome = "Err" THEN Iteration("exec_error", "error", x.err, x.cpu, f)
       ELSE IF x.outcome = "Panic" THEN Iteration("exec_panic", "panic", x.err, x.cpu, f)
       ELSE AfterExecute(x.cpu, opcode, checks, f)

(***************************************************************************)
(* The state machine                                                       *)
(***************************************************************************)
CPU == [registers |-> registers, ram |-> ram, program_counter |-> program_counter, flags |-> flags]

NoError == [kind |-> "none", line |-> 0]

NoIteration == [kind |-> "none", pc |-> 0, fetched |-> NotFetched, before |-> NewCPU]

\* run_emulation up to the call of run_program: a zeroed CPU with the program loaded
LoadProgram ==
    /\ status = "loading"
    /\ registers' = NewCPU.registers
    /\ ram' = NewCPU.ram
    /\ program_counter' = NewCPU.program_counter
    /\ flags' = NewCPU.flags
    /\ memory' = load_program(ZeroMemory, program_vector)
    /\ status' = "running"
    /\ UNCHANGED <<source, program_vector, error, last, overflow_checks>>

\* one iteration of the loop of run_program, called with program.len()
Step ==
    /\ status = "running"
    /\ LET it == run_program_iteration(CPU, memory, Len(program_vector), overflow_checks)
       IN /\ registers' = it.cpu.registers
          /\ ram' = it.cpu.ram
          /\ program_counter' = it.cpu.program_counter
          /\ flags' = it.cpu.flags
          /\ status' = it.status
          /\ error' = [kind |-> it.err, line |-> 0]
          /\ last' = [kind |-> it.kind, pc |-> program_counter, fetched |-> it.fetched,
                      before |-> CPU]
    /\ UNCHANGED <<source, program_vector, memory, overflow_checks>>

(***************************************************************************)
(* Bytecode given to run_emulation directly                                *)
(***************************************************************************)
MaxFill == 1

Instr(opcode_val, mode_byte, operand1_val, operand2_val) ==
    <<opcode_val, mode_byte, operand1_val, operand2_val>>

RECURSIVE Rep(_, _)
Rep(x, n) == IF n <= 0 THEN <<>> ELSE x \o Rep(x, n - 1)

HLTInstr == Instr(11, 0, 0, 0)
\* a filler that leaves the flags alone: MovImm R2 200
Filler == Instr(1, 0, 2, 200)

\* instruction sequences that leave each combination of Zero and Carry behind
FlagPrefixes ==
    { <<>>,                                       \* Zero clear, Carry clear
      Instr(6, 0, 0, 0),                          \* Cmp R0 R0: Zero set
      Instr(1, 0, 1, 1) \o Instr(6, 0, 0, 1),    \* MovImm R1 1; Cmp R0 R1: Carry set
      Instr(1, 0, 0, 128) \o Instr(2, 0, 0, 0) }  \* MovImm R0 128; Add R0 R0: both set

OpcodeSamples == (0..12) \cup {255}
OperandSamples == {0, 3, 4, 255}
Suffixes == { <<>>, Instr(1, 0, 1, 9) \o HLTInstr }

TestInstrs ==
    { Instr(o, m, a, b) : o \in OpcodeSamples, m \in 0..3, a \in OperandSamples, b \in OperandSamples }

ShortPrograms ==
    { p \o Rep(Filler, k) \o t \o s :
        p \in FlagPrefixes, k \in 0..MaxFill, t \in TestInstrs, s \in Suffixes }

\* programs whose length is no multiple of INSTRUCTION_SIZE
TailPrograms ==
    { Rep(Filler, k) \o t \o SubSeq(Filler, 1, n) :
        k \in 0..MaxFill, t \in { <<>>, HLTInstr, Instr(7, 0, 5, 0), Instr(7, 0, 6, 0) },
        n \in 1..(INSTRUCTION_SIZE - 1) }

\* programs that fill the program memory, entered by a jump to their last bytes
EndTests ==
    { Instr(o, m, a, 200) : o \in {1, 6, 7, 8, 9, 10, 11, 12}, m \in {0, 1}, a \in {0, 3} }

LongPrograms ==
    { Instr(7, 0, e, 0) \o Rep(Filler, 62) \o t \o x :
        e \in {248, 252, 253, 255}, t \in EndTests,
        x \in { <<>>, Filler, Filler \o SubSeq(Filler, 1, 1) } }

Programs == ShortPrograms \cup TailPrograms \cup LongPrograms

Init ==
    /\ source = <<>>
    /\ program_vector \in Programs
    /\ overflow_checks \in BOOLEAN
    /\ registers = NewCPU.registers
    /\ ram = NewCPU.ram
    /\ program_counter = NewCPU.program_counter
    /\ flags = NewCPU.flags
    /\ memory = ZeroMemory
    /\ status = "loading"
    /\ error = NoError
    /\ last = NoIteration

Next == LoadProgram \/ Step

Spec == Init /\ [][Next]_vars

(***************************************************************************)
(* Assembly texts given to main                                            *)
(***************************************************************************)
\* main: the text goes through lexer; an error ends the process, the bytes
\* of a text that assembled go to run_emulation
Lexer ==
    /\ status = "main"
    /\ \E r \in {lexer(source)} :
          IF r.ok
          THEN /\ program_vector' = r.program
               /\ status' = "loading"
               /\ error' = error
          ELSE /\ program_vector' = program_vector
               /\ status' = "lexer_error"
               /\ error' = r.err
    /\ UNCHANGED <<source, registers, memory, ram, program_counter, flags, last, overflow_checks>>

RECURSIVE DecimalChars(_)
DecimalChars(n) ==
    IF n < 10 THEN <<Digits[n + 1]>>
    ELSE DecimalChars(n \div 10) \o <<Digits[(n % 10) + 1]>>

RegTok(n) == <<"R">> \o DecimalChars(n)
MemTok(n) == <<"M">> \o DecimalChars(n)

RECURSIVE Join(_, _)
Join(pieces, sep) ==
    IF pieces = <<>> THEN <<>>
    ELSE IF Len(pieces) = 1 THEN pieces[1]
    ELSE pieces[1] \o sep \o Join(Tail(pieces), sep)

Statement(tokens) == Join(tokens, <<" ">>)

ValidOperandToks == { RegTok(0), RegTok(3), MemTok(0), MemTok(255) }
ImmediateSamples == {0, 9, 255}
JumpAddressSamples == (0..9) \cup {255}

ValidStatements ==
    { Statement(<<MnemonicChars[m], d, x>>) :
        m \in {"Mov", "Add", "Sub", "Cmp"}, d \in ValidOperandToks, x \in ValidOperandToks }
    \cup { Statement(<<MnemonicChars.MovImm, d, DecimalChars(v)>>) :
             d \in ValidOperandToks, v \in ImmediateSamples }
    \cup { Statement(<<MnemonicChars[m], d>>) : m \in {"Inc", "Dec"}, d \in ValidOperandToks }
    \cup { Statement(<<MnemonicChars[m], DecimalChars(a)>>) :
             m \in {"JmpAddr", "JmpEq", "JmpNe", "JmpGt"}, a \in JumpAddressSamples }
    \cup { MnemonicChars.HLT }

InvalidStatements ==
    { Statement(<<MnemonicChars.Mov, RegTok(0)>>),
      MnemonicChars.Mov,
      Statement(<<MnemonicChars.Mov, RegTok(0), RegTok(1), RegTok(2)>>),
      Statement(<<MnemonicChars.Add, RegTok(4), RegTok(0)>>),
      Statement(<<MnemonicChars.Sub, RegTok(0), RegTok(256)>>),
      Statement(<<MnemonicChars.Cmp, MemTok(256), RegTok(0)>>),
      Statement(<<MnemonicChars.Cmp, DecimalChars(7), RegTok(0)>>),
      Statement(<<MnemonicChars.MovImm, RegTok(0)>>),
      Statement(<<MnemonicChars.MovImm, RegTok(0), DecimalChars(256)>>),
      Statement(<<MnemonicChars.MovImm, RegTok(0), RegTok(1)>>),
      MnemonicChars.Inc,
      Statement(<<MnemonicChars.Dec, RegTok(0), RegTok(1)>>),
      MnemonicChars.JmpEq,
      Statement(<<MnemonicChars.JmpAddr, RegTok(0)>>),
      Statement(<<MnemonicChars.JmpNe, DecimalChars(256)>>),
      Statement(<<MnemonicChars.JmpGt, DecimalChars(4), DecimalChars(4)>>),
      Statement(<<MnemonicChars.HLT, DecimalChars(1)>>),
      <<"N", "o", "p">>,
      <<"h", "l", "t">> }

\* every valid statement with one more token behind its operands
ExtraTokens == { RegTok(0), DecimalChars(7) }

ExtraTokenStatements == { s \o <<" ">> \o x : s \in ValidStatements, x \in ExtraTokens }

StatementSeparators ==
    { <<";", " ">>, <<"\n">>, <<" ", "/", "/", " ", "x", ";", "\n", " ">>,
      <<"\n", "/", "/", "\n">> }

\* MovImm R0 5; Cmp R0 R0; JmpEq 12; MovImm R1 9; HLT; MovImm R1 1; HLT
ConditionalJumpSource ==
    Join(<< Statement(<<MnemonicChars.MovImm, RegTok(0), DecimalChars(5)>>),
            Statement(<<MnemonicChars.Cmp, RegTok(0), RegTok(0)>>),
            Statement(<<MnemonicChars.JmpEq, DecimalChars(12)>>),
            Statement(<<MnemonicChars.MovImm, RegTok(1), DecimalChars(9)>>),
            MnemonicChars.HLT,
            Statement(<<MnemonicChars.MovImm, RegTok(1), DecimalChars(1)>>),
            MnemonicChars.HLT >>, <<";", " ">>)

FillerStatement == Statement(<<MnemonicChars.MovImm, RegTok(2), DecimalChars(200)>>)

\* the statements a jump of JumpSources lands in
LandingStatements ==
    { Statement(<<MnemonicChars[m], d, x>>) :
        m \in {"Mov", "Add", "Sub", "Cmp"}, d \in {RegTok(0), MemTok(255)},
        x \in {RegTok(0), RegTok(3)} }
    \cup { Statement(<<MnemonicChars.MovImm, RegTok(3), DecimalChars(9)>>),
           Statement(<<MnemonicChars.MovImm, MemTok(0), DecimalChars(255)>>),
           Statement(<<MnemonicChars.Inc, RegTok(0)>>),
           Statement(<<MnemonicChars.Dec, MemTok(255)>>),
           MnemonicChars.HLT }

\* a jump, a statement for it to land in, and fillers behind them
JumpSources ==
    { Join(<<p, Statement(<<MnemonicChars[j], DecimalChars(a)>>), b>> \o [i \in 1..k |-> FillerStatement],
           <<";", " ">>) :
        p \in { <<>>, Statement(<<MnemonicChars.Cmp, RegTok(0), RegTok(0)>>) },
        j \in {"JmpAddr", "JmpEq", "JmpNe", "JmpGt"}, a \in JumpAddressSamples,
        b \in LandingStatements, k \in 0..MaxFill }

Sources ==
    { ConditionalJumpSource, <<>> }
    \cup ValidStatements \cup InvalidStatements \cup ExtraTokenStatements
    \cup { a \o x \o b : a \in InvalidStatements \cup {FillerStatement},
                          x \in StatementSeparators,
                          b \in InvalidStatements \cup {FillerStatement} }
    \cup JumpSources

InitAsm ==
    /\ source \in Sources
    /\ program_vector = <<>>
    /\ overflow_checks \in BOOLEAN
    /\ registers = NewCPU.registers
    /\ ram = NewCPU.ram
    /\ program_counter = NewCPU.program_counter
    /\ flags = NewCPU.flags
    /\ memory = ZeroMemory
    /\ status = "main"
    /\ error = NoError
    /\ last = NoIteration

NextAsm == Lexer \/ LoadProgram \/ Step

SpecAsm == InitAsm /\ [][NextAsm]_vars

(***************************************************************************)
(* Operand tokens given to parse_reg_mem_operand, as the operand of Inc     *)
(***************************************************************************)
MaxOperandToken == 300

OperandTokens ==
    { RegTok(n) : n \in 0..MaxOperandToken }
    \cup { MemTok(n) : n \in 0..MaxOperandToken }
    \cup { <<"R">>, <<"M">>, <<"R", "+", "3">>, <<"R", "-", "1">>, <<"R", "0", "3">>,
            <<"R", "0", "0", "4">>, <<"R", "0", "2", "5", "6">>, <<"R", "x">>, <<"r", "0">>,
            <<"M", "0", "7">>, <<"3">>, <<"R", "3", "R">> }

OperandSources == { Statement(<<MnemonicChars.Inc, t>>) : t \in OperandTokens }

InitOperand ==
    /\ source \in OperandSources
    /\ program_vector = <<>>
    /\ overflow_checks \in BOOLEAN
    /\ registers = NewCPU.registers
    /\ ram = NewCPU.ram
    /\ program_counter = NewCPU.program_counter
    /\ flags = NewCPU.flags
    /\ memory = ZeroMemory
    /\ status = "main"
    /\ error = NoError
    /\ last = NoIteration

NextOperand == Lexer

SpecOperand == InitOperand /\ [][NextOperand]_vars

(***************************************************************************)
(* One statement behind statements that give every cell it can name a      *)
(* value of its own                                                        *)
(***************************************************************************)
\* the cells the statement can name, each with the value the setup gives it
ModeCells ==
    { [type |-> "Register", index |-> i, value |-> 10 + i] : i \in 0..3 }
    \cup { [type |-> "Memory", index |-> 0, value |-> 100],
           [type |-> "Memory", index |-> 3, value |-> 103],
           [type |-> "Memory", index |-> 4, value |-> 104],
           [type |-> "Memory", index |-> 255, value |-> 250] }

CellTok(cell) == IF cell.type = "Memory" THEN MemTok(cell.index) ELSE RegTok(cell.index)

ModeImmediate == 77

\* MovImm <cell> <value> for every cell, registers first
ModeSetup ==
    [k \in 1..8 |->
        LET cell == CHOOSE x \in ModeCells :
                        IF k <= 4 THEN x.type = "Register" /\ x.index = k - 1
                        ELSE x.type = "Memory" /\ x.index = <<0, 3, 4, 255>>[k - 4]
        IN Statement(<<MnemonicChars.MovImm, CellTok(cell), DecimalChars(cell.value)>>)]

ModeStatements ==
    { Statement(<<MnemonicChars[m], CellTok(d), CellTok(x)>>) :
        m \in {"Mov", "Add", "Sub", "Cmp"}, d \in ModeCells, x \in ModeCells }
    \cup { Statement(<<MnemonicChars.MovImm, CellTok(d), DecimalChars(ModeImmediate)>>) :
             d \in ModeCells }
    \cup { Statement(<<MnemonicChars[m], CellTok(d)>>) : m \in {"Inc", "Dec"}, d \in ModeCells }

\* one statement to a line
ModeSources == { Join(ModeSetup \o <<t>>, <<"\n">>) : t \in ModeStatements }

InitMode ==
    /\ source \in ModeSources
    /\ program_vector = <<>>
    /\ overflow_checks \in BOOLEAN
    /\ registers = NewCPU.registers
    /\ ram = NewCPU.ram
    /\ program_counter = NewCPU.program_counter
    /\ flags = NewCPU.flags
    /\ memory = ZeroMemory
    /\ status = "main"
    /\ error = NoError
    /\ last = NoIteration

SpecMode == InitMode /\ [][NextAsm]_vars

(***************************************************************************)
(* Programs without jumps, for the termination of the run loop             *)
(***************************************************************************)
JumpFreeFillers == { Filler, Instr(4, 1, 7, 0), Instr(6, 0, 0, 0) }

JumpFreePrograms ==
    { p \in { Rep(f, k) \o h \o Rep(f, m) :
                f \in JumpFreeFillers, k \in (0..MaxFill) \cup {62, 63, 64},
                h \in { <<>>, HLTInstr }, m \in 0..1 } :
        Len(p) <= MEMORY_SIZE }

InitTermination ==
    /\ source = <<>>
    /\ program_vector \in JumpFreePrograms
    /\ overflow_checks \in BOOLEAN
    /\ registers = NewCPU.registers
    /\ ram = NewCPU.ram
    /\ program_counter = NewCPU.program_counter
    /\ flags = NewCPU.flags
    /\ memory = ZeroMemory
    /\ status = "loading"
    /\ error = NoError
    /\ last = NoIteration

SpecTermination == InitTermination /\ [][Next]_vars

(***************************************************************************)
(* Instructions setting up both operands of an arithmetic instruction      *)
(***************************************************************************)
ByteSamples == {0, 1, 2, 127, 128, 129, 254, 255}

OperandPairs ==
    { <<a, b>> : a \in Byte, b \in ByteSamples } \cup { <<a, b>> : a \in ByteSamples, b \in Byte }

\* MovImm <dest> a; MovImm <src> b; <op> <dest> <src>, over registers and RAM
ArithPrograms ==
    { Instr(1, 0, 0, ab[1]) \o Instr(1, 0, 1, ab[2]) \o Instr(o, 0, 0, 1) :
        ab \in OperandPairs, o \in {2, 3} }
    \cup { Instr(1, 1, 9, ab[1]) \o Instr(1, 0, 3, ab[2]) \o Instr(o, 1, 9, 3) :
             ab \in ByteSamples \X ByteSamples, o \in {2, 3} }
    \cup { Instr(1, 0, 2, ab[1]) \o Instr(1, 1, 255, ab[2]) \o Instr(o, 2, 2, 255) :
             ab \in ByteSamples \X ByteSamples, o \in {2, 3} }
    \cup { Instr(1, 1, 0, ab[1]) \o Instr(1, 1, 1, ab[2]) \o Instr(o, 3, 0, 1) :
             ab \in ByteSamples \X ByteSamples, o \in {2, 3} }
    \cup { Instr(1, m, 3, a) \o Instr(o, m, 3, 0) : a \in Byte, m \in {0, 1}, o \in {2, 3, 4, 5} }

InitArith ==
    /\ source = <<>>
    /\ program_vector \in ArithPrograms
    /\ overflow_checks \in BOOLEAN
    /\ registers = NewCPU.registers
    /\ ram = NewCPU.ram
    /\ program_counter = NewCPU.program_counter
    /\ flags = NewCPU.flags
    /\ memory = ZeroMemory
    /\ status = "loading"
    /\ error = NoError
    /\ last = NoIteration

SpecArith == InitArith /\ [][Next]_vars

(***************************************************************************)
(* A comparison followed by a conditional jump                             *)
(***************************************************************************)
\* MovImm <op1> a; MovImm <op2> b; Cmp <op1> <op2>; <jump> past the next
\* instruction; MovImm R2 200; HLT -- over registers and RAM, and behind an
\* addition that leaves Zero and Carry set
CompareTail(j, m, target) == Instr(j, m, target, 0) \o Filler \o HLTInstr

ComparePrograms ==
    { Instr(1, 0, 0, ab[1]) \o Instr(1, 0, 1, ab[2]) \o Instr(6, 0, 0, 1) \o CompareTail(j, 0, 20) :
        ab \in OperandPairs, j \in {8, 9, 10} }
    \cup { Instr(1, 1, 9, ab[1]) \o Instr(1, 1, 255, ab[2]) \o Instr(6, 3, 9, 255)
              \o CompareTail(j, 3, 20) :
             ab \in ByteSamples \X ByteSamples, j \in {8, 9, 10} }
    \cup { Instr(1, 1, 9, ab[1]) \o Instr(1, 0, 1, ab[2]) \o Instr(6, 1, 9, 1)
              \o CompareTail(j, 1, 20) :
             ab \in ByteSamples \X ByteSamples, j \in {8, 9, 10} }
    \cup { Instr(1, 0, 0, ab[1]) \o Instr(1, 1, 255, ab[2]) \o Instr(6, 2, 0, 255)
              \o CompareTail(j, 2, 20) :
             ab \in ByteSamples \X ByteSamples, j \in {8, 9, 10} }
    \cup { Instr(1, 0, 3, 128) \o Instr(2, 0, 3, 3) \o Instr(1, 0, 0, ab[1]) \o Instr(1, 0, 1, ab[2])
              \o Instr(6, 0, 0, 1) \o CompareTail(j, 0, 28) :
             ab \in ByteSamples \X ByteSamples, j \in {8, 9, 10} }
    \cup { Instr(1, 0, 3, 128) \o Instr(2, 0, 3, 3) \o Instr(1, 1, 9, ab[1]) \o Instr(1, 1, 255, ab[2])
              \o Instr(6, 3, 9, 255) \o CompareTail(j, 3, 28) :
             ab \in ByteSamples \X ByteSamples, j \in {8, 9, 10} }
    \cup { Instr(1, m, 3, a) \o Instr(6, m * 3, 3, 3) \o CompareTail(j, 0, 16) :
             a \in ByteSamples, m \in {0, 1}, j \in {8, 9, 10} }

InitCompare ==
    /\ source = <<>>
    /\ program_vector \in ComparePrograms
    /\ overflow_checks \in BOOLEAN
    /\ registers = NewCPU.registers
    /\ ram = NewCPU.ram
    /\ program_counter = NewCPU.program_counter
    /\ flags = NewCPU.flags
    /\ memory = ZeroMemory
    /\ status = "loading"
    /\ error = NoError
    /\ last = NoIteration

SpecCompare == InitCompare /\ [][Next]_vars

(***************************************************************************)
(* A copy behind each combination of flags, followed by a jump             *)
(***************************************************************************)
MoveValues == {0, 1, 11, 255}
MoveSources == {0, 3}
MoveDestinations == {0, 1, 3, 4, 12, 255}
JumpOpcodes == {7, 8, 9, 10}

\* <flags>; MovImm <src> v; <Mov dest src | MovImm dest v>; <jump> past the
\* next instruction; MovImm R2 200; HLT -- over registers and RAM
MovePrograms ==
    { p \o Instr(1, ms, s, v) \o Instr(o, md + 2 * ms, d, IF o = 0 THEN s ELSE v)
        \o Instr(j, md + 2 * ms, Len(p) + 16, v) \o Filler \o HLTInstr :
        p \in FlagPrefixes, ms \in {0, 1}, s \in MoveSources, v \in MoveValues,
        o \in {0, 1}, md \in {0, 1}, d \in MoveDestinations, j \in JumpOpcodes }

InitMove ==
    /\ source = <<>>
    /\ program_vector \in MovePrograms
    /\ overflow_checks \in BOOLEAN
    /\ registers = NewCPU.registers
    /\ ram = NewCPU.ram
    /\ program_counter = NewCPU.program_counter
    /\ flags = NewCPU.flags
    /\ memory = ZeroMemory
    /\ status = "loading"
    /\ error = NoError
    /\ last = NoIteration

SpecMove == InitMove /\ [][Next]_vars

(***************************************************************************)
(* One instruction that reads or writes a cell, over the addresses of the  *)
(* program's own bytes and the last RAM address                            *)
(***************************************************************************)
WriteOpcodes == 0..6
WriteDestinations == {0, 1, 3, 4, 5, 12, 255}
WriteSources == {0, 3, 255}

\* <flags>; MovImm <src> v; <op> <dest> <src | v>; HLT
WritePrograms ==
    { p \o Instr(1, ms, s, v) \o Instr(o, md + 2 * ms, d, IF o = 1 THEN v ELSE s) \o HLTInstr :
        p \in FlagPrefixes, ms \in {0, 1}, s \in WriteSources, v \in MoveValues,
        o \in WriteOpcodes, md \in {0, 1}, d \in WriteDestinations }

InitWrite ==
    /\ source = <<>>
    /\ program_vector \in WritePrograms
    /\ overflow_checks \in BOOLEAN
    /\ registers = NewCPU.registers
    /\ ram = NewCPU.ram
    /\ program_counter = NewCPU.program_counter
    /\ flags = NewCPU.flags
    /\ memory = ZeroMemory
    /\ status = "loading"
    /\ error = NoError
    /\ last = NoIteration

SpecWrite == InitWrite /\ [][Next]_vars

(***************************************************************************)
(* An instruction that may fail, behind instructions that leave flags and  *)
(* a RAM byte set                                                          *)
(***************************************************************************)
FaultOpcodes == (0..6) \cup {12, 13, 200, 255}

\* <flags>; MovImm M3 9; then an instruction over operands in and out of
\* range, or with an unknown opcode, or cut short, or a jump into the last
\* bytes of the program
FaultInstrs ==
    { Instr(o, m, a, b) : o \in FaultOpcodes, m \in 0..3, a \in OperandSamples, b \in OperandSamples }
    \cup { SubSeq(t, 1, n) : t \in { Filler, Instr(12, 0, 0, 0), HLTInstr }, n \in 1..3 }

FaultPrograms ==
    { p \o Instr(1, 1, 3, 9) \o t \o x :
        p \in FlagPrefixes, t \in FaultInstrs, x \in { <<>>, HLTInstr } }
    \cup { p \o Instr(1, 1, 3, 9) \o Instr(j, 0, Len(p) + 8 + k, 0) \o HLTInstr :
             p \in FlagPrefixes, j \in JumpOpcodes, k \in 1..4 }

InitFault ==
    /\ source = <<>>
    /\ program_vector \in FaultPrograms
    /\ overflow_checks \in BOOLEAN
    /\ registers = NewCPU.registers
    /\ ram = NewCPU.ram
    /\ program_counter = NewCPU.program_counter
    /\ flags = NewCPU.flags
    /\ memory = ZeroMemory
    /\ status = "loading"
    /\ error = NoError
    /\ last = NoIteration

SpecFault == InitFault /\ [][Next]_vars

(***************************************************************************)
(* Properties                                                              *)
(***************************************************************************)
\* the last iteration fetched an instruction, and the operation it decoded to
Fetched == last.fetched # NotFetched
LastOp == try_from(last.fetched.opcode_val)
LastDestType == dest_type_of(last.fetched.mode_byte)
LastSrcType == src_type_of(last.fetched.mode_byte)
Ran == last.kind \in {"executed", "advance_panic", "exec_panic"}

\* the operations that access their destination operand, and their source operand
AccessesDest(op) == op \in {"Mov", "MovImm", "Add", "Sub", "Inc", "Dec", "Cmp"}
AccessesSrc(op) == op \in {"Mov", "Add", "Sub", "Cmp"}

ValidCell(operand_type, address_or_index) ==
    operand_type = "Memory" \/ address_or_index < REGISTER_COUNT

CellOf(c, operand_type, address_or_index) ==
    IF operand_type = "Memory" THEN c.ram[address_or_index] ELSE c.registers[address_or_index]

CPUUnchanged ==
    /\ registers = last.before.registers
    /\ ram = last.before.ram
    /\ flags = last.before.flags
    /\ program_counter = last.before.program_counter

\* C1 as claimed: the text MovImm R0 5; Cmp R0 R0; JmpEq 12; MovImm R1 9; HLT;
\* MovImm R1 1; HLT assembles, the run has Zero set after the Cmp at offset 4,
\* goes from the JmpEq at offset 8 to offset 12, executes MovImm R1 1 there, and
\* ends by HLT with R1 = 1; R1 is never 9
C1_AsClaimed ==
    source = ConditionalJumpSource =>
        /\ status \in {"main", "loading", "running", "halted"}
        /\ registers[1] # 9
        /\ (last.kind # "none" /\ last.pc = 4 /\ status = "running") =>
              (LastOp = "Cmp" /\ is_flag_set(flags, FLAG_ZERO) /\ program_counter = 8)
        /\ (last.kind # "none" /\ last.pc = 8) =>
              (LastOp = "JmpEq" /\ program_counter = 12 /\ status = "running")
        /\ status = "halted" => registers[1] = 1

\* C1: that text assembles to 28 bytes, the run has Zero set after the Cmp at
\* offset 4 and goes from the JmpEq at offset 8 to offset 12; the instruction
\* at offset 12 is the fourth statement, MovImm R1 9, so the run stores 9 in
\* R1 and can only end by the HLT at offset 16, with R1 = 9; R1 is never 1 and
\* the statements at offsets 20 and 24 are never fetched
C1_ConditionalJumpEndToEnd ==
    source = ConditionalJumpSource =>
        /\ status \in {"main", "loading", "running", "halted"}
        /\ status # "main" => Len(program_vector) = 28
        /\ registers[1] # 1
        /\ last.kind # "none" => last.pc \in {0, 4, 8, 12, 16}
        /\ (last.kind # "none" /\ last.pc = 4 /\ status = "running") =>
              (LastOp = "Cmp" /\ is_flag_set(flags, FLAG_ZERO) /\ program_counter = 8)
        /\ (last.kind # "none" /\ last.pc = 8) =>
              (LastOp = "JmpEq" /\ program_counter = 12 /\ status = "running")
        /\ (last.kind # "none" /\ last.pc = 12) =>
              (LastOp = "MovImm" /\ registers[1] = 9 /\ program_counter = 16)
        /\ status = "halted" => (last.pc = 16 /\ LastOp = "HLT" /\ registers[1] = 9)

C1_Witness ==
    /\ source = ConditionalJumpSource
    /\ status = "halted"
    /\ last.pc = 16
    /\ registers[1] = 9
    /\ registers[0] = 5

\* C2: the opcode the lexer emits for each of the 12 mnemonics is the one the
\* specification assigns, try_from decodes it back to that mnemonic, no two
\* mnemonics share an opcode, the bytes 0..11 decode to the 12 operations, one
\* each; and in a run of an assembled one-statement text the operation decoded
\* at offset 0 is the mnemonic the text names
OpcodeAssignment ==
    [Mov |-> 0, MovImm |-> 1, Add |-> 2, Sub |-> 3, Inc |-> 4, Dec |-> 5, Cmp |-> 6,
     JmpAddr |-> 7, JmpEq |-> 8, JmpNe |-> 9, JmpGt |-> 10, HLT |-> 11]

C2_OpcodeTableBijective ==
    /\ Cardinality(Mnemonics) = 12
    /\ \A m \in Mnemonics :
          /\ lexer_opcode_val(m) = OpcodeAssignment[m]
          /\ try_from(lexer_opcode_val(m)) = m
    /\ \A m, n \in Mnemonics : lexer_opcode_val(m) = lexer_opcode_val(n) => m = n
    /\ \A b \in 0..11 : try_from(b) \in Mnemonics /\ lexer_opcode_val(try_from(b)) = b
    /\ (source \in ValidStatements /\ status # "main") =>
          /\ status # "lexer_error"
          /\ Len(program_vector) = INSTRUCTION_SIZE
          /\ try_from(program_vector[1]) = MatchMnemonic(split_whitespace(source)[1])
          /\ (Fetched /\ last.pc = 0) => LastOp = MatchMnemonic(split_whitespace(source)[1])

C2_Witness ==
    /\ source = Statement(<<MnemonicChars.JmpGt, DecimalChars(4)>>)
    /\ Fetched
    /\ last.pc = 0
    /\ LastOp = "JmpGt"
    /\ last.fetched.opcode_val = 10

\* the instructions of a program at the offsets that are multiples of 4
InstrAt(p, k) == SubSeq(p, INSTRUCTION_SIZE * k + 1, INSTRUCTION_SIZE * k + INSTRUCTION_SIZE)

\* a program of whole instructions that fits the program memory, without jumps,
\* unknown opcodes or operands out of range
JumpFreeValid(p) ==
    /\ Len(p) % INSTRUCTION_SIZE = 0
    /\ Len(p) <= MEMORY_SIZE
    /\ \A k \in 0..((Len(p) \div INSTRUCTION_SIZE) - 1) :
          LET i == InstrAt(p, k)
              op == try_from(i[1])
          IN /\ op \in {"Mov", "MovImm", "Add", "Sub", "Inc", "Dec", "Cmp", "HLT"}
             /\ AccessesDest(op) => ValidCell(dest_type_of(i[2]), i[3])
             /\ AccessesSrc(op) => ValidCell(src_type_of(i[2]), i[4])

\* C3: the run of a program of whole instructions, at most 256 bytes, without
\* jumps and without instructions that raise a runtime error, ends successfully,
\* by the first HLT it fetches or by the program counter reaching the program's
\* end: it never ends in an error or a panic, and every iteration that does not
\* end it moves the program counter forward, so that the end is reached
C3_JumpFreeRunTerminates ==
    [][ (JumpFreeValid(program_vector) /\ status = "running") =>
            \/ status' \in {"halted", "ended"}
            \/ status' = "running" /\ program_counter' > program_counter ]_vars

\* C4 as claimed: the run of the bytes of an assembled text never ends with an
\* invalid register index or an invalid memory address
C4_AsClaimed ==
    status = "error" => error.kind \notin {"InvalidRegisterIndex", "InvalidMemoryAddress"}

\* every jump statement of an assembled program names an address that is a
\* multiple of 4
JumpsAligned(p) ==
    \A k \in 0..((Len(p) \div INSTRUCTION_SIZE) - 1) :
        IsJump(try_from(InstrAt(p, k)[1])) => InstrAt(p, k)[3] % INSTRUCTION_SIZE = 0

\* C4: the run of the bytes of an assembled text whose jump addresses are all
\* multiples of 4 never ends with an invalid register index or an invalid
\* memory address, and fetches instructions at multiples of 4 only
C4_AssembledAlignedNeverOutOfRange ==
    (status \notin {"main", "lexer_error"} /\ JumpsAligned(program_vector)) =>
        /\ status = "error" => error.kind \notin {"InvalidRegisterIndex", "InvalidMemoryAddress"}
        /\ program_counter % INSTRUCTION_SIZE = 0

C4_Witness ==
    /\ source # <<>>
    /\ Len(program_vector) >= 2 * INSTRUCTION_SIZE
    /\ JumpsAligned(program_vector)
    /\ InstrAt(program_vector, 0) = Instr(7, 0, 4, 0)
    /\ last.kind = "executed"
    /\ last.pc = 4
    /\ LastOp = "Add"
    /\ LastDestType = "Memory"

\* a conditional jump was fetched and its condition did not hold
NotTakenJump ==
    /\ Fetched
    /\ LastOp \in {"JmpEq", "JmpNe", "JmpGt"}
    /\ ~JumpCondition(LastOp, last.before.flags)

\* C5: after a conditional jump whose condition does not hold the program
\* counter is the jump's address plus 4, registers, RAM and flags are what
\* they were, and the run goes on (so the next instruction is not this jump)
C5_NotTakenJumpAdvancesBy4 ==
    NotTakenJump =>
        /\ program_counter = last.pc + INSTRUCTION_SIZE
        /\ registers = last.before.registers
        /\ ram = last.before.ram
        /\ flags = last.before.flags
        /\ status = "running"

\* a jump was fetched and taken
TakenJump(l) ==
    /\ l.fetched # NotFetched
    /\ IsJump(try_from(l.fetched.opcode_val))
    /\ JumpCondition(try_from(l.fetched.opcode_val), l.before.flags)

\* C6: a taken jump leaves the program counter at its operand1 byte, whatever
\* its mode byte and operand2 byte, changes nothing else, and the run goes on;
\* the instruction fetched next is the one at that address
C6_TakenJumpSetsPC ==
    [][ /\ TakenJump(last') =>
              /\ program_counter' = last'.fetched.operand1_val
              /\ registers' = last'.before.registers
              /\ ram' = last'.before.ram
              /\ flags' = last'.before.flags
              /\ status' = "running"
        /\ (TakenJump(last) /\ last'.fetched # NotFetched) =>
              /\ last'.pc = last.fetched.operand1_val
              /\ last'.fetched.opcode_val = memory[last.fetched.operand1_val] ]_vars

C6_Witness ==
    /\ TakenJump(last)
    /\ LastOp = "JmpGt"
    /\ last.fetched.mode_byte = 3
    /\ last.fetched.operand2_val = 255
    /\ last.fetched.operand1_val = 0
    /\ last.pc = 4
    /\ program_counter = 0

\* the cells an arithmetic instruction worked on, as they were before it
DestBefore == CellOf(last.before, LastDestType, last.fetched.operand1_val)
SrcBefore == CellOf(last.before, LastSrcType, last.fetched.operand2_val)
DestNow == CellOf(CPU, LastDestType, last.fetched.operand1_val)

ArithOperandsValid ==
    /\ ValidCell(LastDestType, last.fetched.operand1_val)
    /\ LastOp \in {"Add", "Sub"} => ValidCell(LastSrcType, last.fetched.operand2_val)

\* what Add, Sub, Inc and Dec are to store for destination a and source b, and
\* whether they wrap
ArithResult(op, a, b) ==
    CASE op = "Add" -> (a + b) % 256
      [] op = "Sub" -> (a - b) % 256
      [] op = "Inc" -> (a + 1) % 256
      [] op = "Dec" -> (a - 1) % 256

ArithWraps(op, a, b) ==
    CASE op = "Add" -> a + b > 255
      [] op = "Sub" -> a < b
      [] op = "Inc" -> a = 255
      [] op = "Dec" -> a = 0

\* C7: Add, Sub, Inc and Dec on operands in range store the result modulo 256
\* in the destination, set Zero iff the stored byte is 0 and Carry iff the
\* operation wrapped, leave the other flag bits alone, and never end the run
\* with an error or a panic of their own
C7_ArithmeticWrapsAndSetsFlags ==
    (Fetched /\ LastOp \in {"Add", "Sub", "Inc", "Dec"} /\ ArithOperandsValid) =>
        /\ last.kind \in {"executed", "advance_panic"}
        /\ DestNow = ArithResult(LastOp, DestBefore, SrcBefore)
        /\ is_flag_set(flags, FLAG_ZERO) <=> (DestNow = 0)
        /\ is_flag_set(flags, FLAG_CARRY) <=> ArithWraps(LastOp, DestBefore, SrcBefore)
        /\ flags \in 0..3
        /\ (LastOp = "Add" /\ DestBefore = 255 /\ SrcBefore = 1) => (DestNow = 0 /\ flags = 3)
        /\ (LastOp = "Sub" /\ DestBefore = 0 /\ SrcBefore = 1) => (DestNow = 255 /\ flags = 2)

C7_Witness ==
    /\ Fetched
    /\ LastOp = "Sub"
    /\ last.kind = "executed"
    /\ DestBefore = 0
    /\ SrcBefore = 1
    /\ DestNow = 255
    /\ flags = 2

\* an operand the fetched instruction accesses is a register with index 4 or more
RegisterOutOfRange ==
    \/ /\ AccessesDest(LastOp)
       /\ LastDestType = "Register"
       /\ last.fetched.operand1_val >= 4
    \/ /\ AccessesSrc(LastOp)
       /\ LastSrcType = "Register"
       /\ last.fetched.operand2_val >= 4

\* C8: an instruction that accesses an operand in register mode with an index
\* of 4 or more ends the run with an invalid-register-index error and changes
\* no register, RAM byte or flag; the register file is R0..R3 in every state
C8_RegisterIndexChecked ==
    /\ DOMAIN registers = 0..3
    /\ (Fetched /\ RegisterOutOfRange) =>
          /\ last.kind = "exec_error"
          /\ status = "error"
          /\ error.kind = "InvalidRegisterIndex"
          /\ CPUUnchanged

C8_Witness ==
    /\ Fetched
    /\ LastOp = "Mov"
    /\ LastSrcType = "Memory"
    /\ LastDestType = "Register"
    /\ last.fetched.operand1_val = 255
    /\ status = "error"
    /\ error.kind = "InvalidRegisterIndex"

\* the loop is about to fetch 4 bytes at the program counter
AboutToFetch ==
    /\ status = "running"
    /\ program_counter < Len(program_vector)
    /\ program_counter + INSTRUCTION_SIZE <= Len(program_vector)

\* C9: when the byte at the program counter is none of the opcodes 0..11, the
\* iteration ends the run with an unknown-opcode error and changes nothing of
\* the CPU
C9_UnknownOpcodeStops ==
    [][ (AboutToFetch /\ memory[program_counter] \notin 0..11) =>
            /\ status' = "error"
            /\ error'.kind = "UnknownOpcode"
            /\ UNCHANGED <<registers, ram, flags, program_counter, memory>> ]_vars

\* C10: when the program counter is below the program length and fewer than 4
\* bytes remain, the iteration ends the run with an incomplete-instruction
\* error, fetches nothing and changes nothing of the CPU
C10_IncompleteInstructionStops ==
    [][ (/\ status = "running"
         /\ program_counter < Len(program_vector)
         /\ program_counter + INSTRUCTION_SIZE > Len(program_vector)) =>
            /\ status' = "error"
            /\ error'.kind = "IncompleteInstruction"
            /\ last'.kind = "incomplete"
            /\ last'.pc = program_counter
            /\ last'.fetched = NotFetched
            /\ UNCHANGED <<registers, ram, flags, program_counter, memory>> ]_vars

C10_Witness ==
    /\ status = "error"
    /\ error.kind = "IncompleteInstruction"
    /\ last.kind = "incomplete"
    /\ Len(program_vector) % INSTRUCTION_SIZE = 0
    /\ last.pc % INSTRUCTION_SIZE # 0
    /\ last.pc + INSTRUCTION_SIZE > Len(program_vector)

C10_WitnessTruncated ==
    /\ status = "error"
    /\ error.kind = "IncompleteInstruction"
    /\ Len(program_vector) % INSTRUCTION_SIZE # 0
    /\ last.pc % INSTRUCTION_SIZE = 0

\* the state of a run: the program has been loaded
Loaded == status \in {"running", "halted", "ended", "error", "panic"}

\* C11: program memory, RAM and the register file keep their sizes (256, 256
\* and 4 cells, each a byte) in every state, whatever the length of the program
\* vector; once loaded, program memory holds the first 256 bytes of the
\* vector and zero behind a shorter one, so nothing of a longer vector lands
\* anywhere, and an iteration changes at most one cell of registers and RAM
C11_WritesStayInside ==
    /\ DOMAIN memory = 0..255
    /\ DOMAIN ram = 0..255
    /\ DOMAIN registers = 0..3
    /\ \A i \in 0..255 : memory[i] \in Byte /\ ram[i] \in Byte
    /\ \A i \in 0..3 : registers[i] \in Byte
    /\ Loaded =>
          \A i \in 0..255 :
              memory[i] = IF i < Len(program_vector) THEN program_vector[i + 1] ELSE 0
    /\ last.kind # "none" =>
          Cardinality({i \in 0..255 : ram[i] # last.before.ram[i]}
                      \cup {256 + i : i \in {j \in 0..3 : registers[j] # last.before.registers[j]}}) <= 1

C11_Witness ==
    /\ Len(program_vector) > MEMORY_SIZE
    /\ Fetched
    /\ last.pc = 252
    /\ LastOp = "MovImm"
    /\ LastDestType = "Memory"
    /\ last.before.ram[3] = 0
    /\ ram[3] = 200

\* the non-empty statements of a line, in order: what is left of the line
\* before a // comment, cut at the semicolons, each piece trimmed
StatementsOfLine(line) ==
    LET parts == split(Head(split(line, <<"/", "/">>)), <<";">>)
    IN SelectSeq([k \in 1..Len(parts) |-> trim(parts[k])], LAMBDA p : p # <<>>)

\* the non-empty statements of a text, in source order
RECURSIVE StatementsOfLines(_)
StatementsOfLines(ls) ==
    IF ls = <<>> THEN <<>> ELSE StatementsOfLine(Head(ls)) \o StatementsOfLines(Tail(ls))

StatementsOf(text) == StatementsOfLines(lines(text))

\* the encoding, or the error, of each statement taken alone
StatementResults(text) ==
    LET st == StatementsOf(text)
    IN [k \in 1..Len(st) |-> lex_statement(split_whitespace(st[k]))]

\* C12: the assembler either fails, with the error of the first statement in
\* source order that fails alone, and no bytes go on to the run; or it returns
\* 4 bytes for every non-empty statement, the k-th group of 4 being the
\* encoding of the k-th statement
C12_AssemblyAllOrNothing ==
    status \in {"loading", "lexer_error"} =>
        LET res == StatementResults(source)
            bad == {k \in 1..Len(res) : ~res[k].ok}
        IN IF bad = {}
           THEN /\ status = "loading"
                /\ Len(program_vector) = INSTRUCTION_SIZE * Len(res)
                /\ \A k \in 1..Len(res) :
                      /\ Len(res[k].bytes) = INSTRUCTION_SIZE
                      /\ InstrAt(program_vector, k - 1) = res[k].bytes
           ELSE /\ status = "lexer_error"
                /\ program_vector = <<>>
                /\ error.kind = res[CHOOSE k \in bad : \A j \in bad : k <= j].err

C12_Witness ==
    /\ status = "lexer_error"
    /\ program_vector = <<>>
    /\ Len(StatementResults(source)) = 2
    /\ StatementResults(source)[1].ok
    /\ ~StatementResults(source)[2].ok
    /\ error.kind = "TooManyOperands"

C12_WitnessAssembled ==
    /\ status = "loading"
    /\ Len(StatementsOf(source)) = 7
    /\ Len(program_vector) = 28

\* the 1-based numbers of the physical lines that hold a statement failing alone
FailingLines(text) ==
    {l \in 1..Len(lines(text)) :
        \E k \in 1..Len(StatementsOfLine(lines(text)[l])) :
            ~lex_statement(split_whitespace(StatementsOfLine(lines(text)[l])[k])).ok}

\* the tokens of the first statement of a text that fails alone
FirstFailingTokens(text) ==
    LET res == StatementResults(text)
        k == CHOOSE i \in 1..Len(res) : ~res[i].ok /\ \A j \in 1..(i - 1) : res[j].ok
    IN split_whitespace(StatementsOf(text)[k])

\* the operand a statement lacks, "none" when it has the operands its mnemonic
\* takes or its first token is no mnemonic
MissingOperandOf(tokens) ==
    LET m == MatchMnemonic(tokens[1])
        n == Len(tokens) - 1
    IN CASE m \in {"Mov", "Add", "Sub", "Cmp"} /\ n = 0 -> "MissingDestinationOperand"
         [] m \in {"Mov", "Add", "Sub", "Cmp"} /\ n = 1 -> "MissingSourceOperand"
         [] m = "MovImm" /\ n = 0 -> "MissingDestinationOperand"
         [] m = "MovImm" /\ n = 1 -> "MissingImmediateValue"
         [] m \in {"Inc", "Dec"} /\ n = 0 -> "MissingOperand"
         [] m \in {"JmpAddr", "JmpEq", "JmpNe", "JmpGt"} /\ n = 0 -> "MissingAddress"
         [] OTHER -> "none"

\* C13: when the first statement that fails lacks an operand, the assembler's
\* error names that operand (for `Mov R0`, the source operand); every assembly
\* error carries the 1-based number of the physical line of the failing
\* statement, empty and comment lines counted; and no bytes are returned, also
\* when valid statements precede the failing one
C13_MissingOperandReported ==
    status = "lexer_error" =>
        /\ program_vector = <<>>
        /\ FailingLines(source) # {}
        /\ error.line \in FailingLines(source)
        /\ \A l \in FailingLines(source) : error.line <= l
        /\ MissingOperandOf(FirstFailingTokens(source)) # "none" =>
              error.kind = MissingOperandOf(FirstFailingTokens(source))
        /\ FirstFailingTokens(source) = <<MnemonicChars.Mov, RegTok(0)>> =>
              error.kind = "MissingSourceOperand"

C13_Witness ==
    /\ source = FillerStatement \o <<"\n", "/", "/", "\n">> \o Statement(<<MnemonicChars.Mov, RegTok(0)>>)
    /\ status = "lexer_error"
    /\ error.kind = "MissingSourceOperand"
    /\ error.line = 3
    /\ program_vector = <<>>

\* the number of operands a mnemonic takes
ExpectedOperands(m) ==
    CASE m \in {"Mov", "Add", "Sub", "Cmp", "MovImm"} -> 2
      [] m \in {"Inc", "Dec", "JmpAddr", "JmpEq", "JmpNe", "JmpGt"} -> 1
      [] m = "HLT" -> 0

\* a statement of a mnemonic with a token behind the operands the mnemonic
\* takes, these operands being valid: the statement cut behind them assembles
HasExtraToken(tokens) ==
    LET m == MatchMnemonic(tokens[1])
    IN /\ m \in Mnemonics
       /\ Len(tokens) > 1 + ExpectedOperands(m)
       /\ lex_statement(SubSeq(tokens, 1, 1 + ExpectedOperands(m))).ok

\* C14: a text whose first failing statement has a token left behind valid
\* operands is rejected with a too-many-operands error and no bytes; a text
\* that assembled has no statement with a token left over
C14_ExtraTokenRejected ==
    /\ status = "loading" =>
          \A k \in 1..Len(StatementsOf(source)) :
              ~HasExtraToken(split_whitespace(StatementsOf(source)[k]))
    /\ (status = "lexer_error" /\ HasExtraToken(FirstFailingTokens(source))) =>
          /\ error.kind = "TooManyOperands"
          /\ program_vector = <<>>

C14_Witness ==
    /\ source = Statement(<<MnemonicChars.MovImm, MemTok(255), DecimalChars(9), DecimalChars(7)>>)
    /\ status = "lexer_error"
    /\ error.kind = "TooManyOperands"

\* the text `Inc R<n>` has gone through the lexer
ResolvedRegister(n) ==
    /\ source = Statement(<<MnemonicChars.Inc, RegTok(n)>>)
    /\ status # "main"

\* C15 as claimed: every token R<n> with n >= 4, also above 255, is rejected
\* with a register-index-out-of-bounds error
C15_AsClaimed ==
    \A n \in 4..MaxOperandToken :
        ResolvedRegister(n) =>
            (status = "lexer_error" /\ error.kind = "RegisterIndexOutOfBounds")

\* C15: R0..R3 resolve to (n, Register), so that `Inc R<n>` assembles to
\* 4, 0, n, 0; every R<n> with n >= 4 is rejected and gives no bytes, with a
\* register-index-out-of-bounds error for n in 4..255 and with an
\* invalid-register-index error for n above 255, whose digits are no u8
C15_RegisterTokenResolved ==
    \A n \in 0..MaxOperandToken :
        ResolvedRegister(n) =>
            IF n < 4
            THEN status = "loading" /\ program_vector = <<4, 0, n, 0>>
            ELSE /\ status = "lexer_error"
                 /\ program_vector = <<>>
                 /\ error.line = 1
                 /\ error.kind = IF n <= U8_MAX THEN "RegisterIndexOutOfBounds"
                                               ELSE "InvalidRegisterIndex"

C15_Witness ==
    /\ ResolvedRegister(256)
    /\ status = "lexer_error"
    /\ error.kind = "InvalidRegisterIndex"

C15_WitnessResolved ==
    /\ ResolvedRegister(3)
    /\ program_vector = <<4, 0, 3, 0>>

\* the program starts with an unconditional jump to address 0, its own address
SelfLoop ==
    /\ Len(program_vector) >= INSTRUCTION_SIZE
    /\ program_vector[1] = 7
    /\ program_vector[3] = 0

\* C16: the run of a program that starts with JmpAddr 0 never reaches a
\* terminal state: it is loading or running in every state, with the program
\* counter 0 and the CPU as constructed, and a step is always possible.  A run
\* stops only by a HLT it fetched, by the program counter reaching the program
\* length, or by a failure that ends the process: an error run_program
\* returns, or the panic of an overflowing program-counter addition
C16_SelfLoopNeverStops ==
    /\ SelfLoop =>
          /\ status \in {"loading", "running"}
          /\ program_counter = 0
          /\ registers = ZeroRegisters /\ ram = ZeroMemory /\ flags = 0
          /\ ENABLED Next
    /\ status = "halted" => (last.kind = "halt" /\ LastOp = "HLT")
    /\ status = "ended" => (last.kind = "exit" /\ program_counter >= Len(program_vector))
    /\ status = "error" =>
          (last.kind \in {"incomplete", "unknown_opcode", "exec_error"} /\ error.kind # "none")
    /\ status = "panic" =>
          (last.kind \in {"fetch_panic", "exec_panic", "advance_panic"}
             /\ error.kind = "AddOverflow")
    /\ status = "running" => last.kind \in {"none", "executed"}

C16_Witness ==
    /\ SelfLoop
    /\ program_vector[2] = 3
    /\ program_vector[4] = 255
    /\ status = "running"
    /\ last.kind = "executed"
    /\ last.pc = 0
    /\ LastOp = "JmpAddr"
    /\ program_counter = 0

\* what a run shows of itself: the CPU, whether it goes on, and its error
Snapshot == [cpu |-> CPU, status |-> status, err |-> error.kind]

\* the run of the program bytes from the all-zero CPU: its first snapshot, and
\* the snapshot that follows a given one in a build with these overflow checks
FirstSnapshot ==
    [cpu |-> [registers |-> [i \in 0..3 |-> 0], ram |-> [i \in 0..255 |-> 0],
              program_counter |-> 0, flags |-> 0],
     status |-> "running", err |-> "none"]

NextSnapshot(s) ==
    LET it == run_program_iteration(s.cpu, load_program(ZeroMemory, program_vector),
                                    Len(program_vector), overflow_checks)
    IN [cpu |-> it.cpu, status |-> it.status, err |-> it.err]

MaxReplay == 10

\* from and to are the k-th snapshot and the one after it, for a k up to MaxReplay
RECURSIVE Follows(_, _, _, _)
Follows(s, k, from, to) ==
    IF s = from /\ NextSnapshot(s) = to THEN TRUE
    ELSE IF k >= MaxReplay \/ s.status # "running" THEN FALSE
    ELSE Follows(NextSnapshot(s), k + 1, from, to)

C18_FetchInsideProgram ==
    /\ last.kind # "fetch_panic"
    /\ Fetched =>
          /\ last.pc + INSTRUCTION_SIZE <= Len(program_vector)
          /\ last.pc + 3 <= U8_MAX
          /\ last.fetched = [opcode_val |-> program_vector[last.pc + 1],
                              mode_byte |-> program_vector[last.pc + 2],
                              operand1_val |-> program_vector[last.pc + 3],
                              operand2_val |-> program_vector[last.pc + 4]]

\* a conditional jump was fetched and the instruction just before it in the
\* program is a Cmp; the values of the operands of that Cmp
CmpBeforeJump ==
    /\ Fetched
    /\ LastOp \in {"JmpEq", "JmpNe", "JmpGt"}
    /\ last.pc >= INSTRUCTION_SIZE
    /\ try_from(memory[last.pc - 4]) = "Cmp"

CmpOperand1 == CellOf(last.before, dest_type_of(memory[last.pc - 3]), memory[last.pc - 2])
CmpOperand2 == CellOf(last.before, src_type_of(memory[last.pc - 3]), memory[last.pc - 1])

JumpWasTaken == program_counter = last.fetched.operand1_val

\* C19: a conditional jump that follows a Cmp of the values a and b either
\* goes to its target or to the next instruction, and goes to its target iff
\* a = b (JmpEq), a # b (JmpNe), a > b as unsigned bytes (JmpGt), whatever
\* the flags were before the Cmp
C19_JumpFollowsComparison ==
    CmpBeforeJump =>
        /\ status = "running"
        /\ last.fetched.operand1_val # last.pc + INSTRUCTION_SIZE
        /\ JumpWasTaken \/ program_counter = last.pc + INSTRUCTION_SIZE
        /\ LastOp = "JmpEq" => (JumpWasTaken <=> CmpOperand1 = CmpOperand2)
        /\ LastOp = "JmpNe" => (JumpWasTaken <=> CmpOperand1 # CmpOperand2)
        /\ LastOp = "JmpGt" => (JumpWasTaken <=> CmpOperand1 > CmpOperand2)

C19_Witness ==
    /\ CmpBeforeJump
    /\ LastOp = "JmpGt"
    /\ CmpOperand1 = 128
    /\ CmpOperand2 = 127
    /\ last.before.flags = 0
    /\ JumpWasTaken

C19_WitnessNotTaken ==
    /\ CmpBeforeJump
    /\ LastOp = "JmpGt"
    /\ CmpOperand1 = 1
    /\ CmpOperand2 = 255
    /\ last.before.flags = FLAG_CARRY
    /\ program_counter = last.pc + INSTRUCTION_SIZE

\* C20: a Cmp that executed leaves every register and every RAM byte as it
\* was, operand1 included, and the program memory too; it sets Zero iff the
\* two operand values are equal and Carry iff operand1 < operand2, clears
\* them otherwise, and the program counter moves to the next instruction
C20_CmpChangesOnlyFlags ==
    (Fetched /\ LastOp = "Cmp" /\ last.kind = "executed") =>
        /\ registers = last.before.registers
        /\ ram = last.before.ram
        /\ DestNow = DestBefore
        /\ \A i \in 0..255 :
              memory[i] = IF i < Len(program_vector) THEN program_vector[i + 1] ELSE 0
        /\ is_flag_set(flags, FLAG_ZERO) <=> (DestBefore = SrcBefore)
        /\ is_flag_set(flags, FLAG_CARRY) <=> (DestBefore < SrcBefore)
        /\ flags \in 0..3
        /\ program_counter = last.pc + INSTRUCTION_SIZE
        /\ status = "running"

C20_Witness ==
    /\ Fetched
    /\ LastOp = "Cmp"
    /\ last.kind = "executed"
    /\ LastDestType = "Memory"
    /\ last.before.flags = 3
    /\ DestBefore = 1
    /\ SrcBefore = 255
    /\ DestNow = 1
    /\ flags = FLAG_CARRY

\* the registers and RAM bytes that differ from what they were before the
\* last iteration
ChangedRegisters == {i \in 0..(REGISTER_COUNT - 1) : registers[i] # last.before.registers[i]}
ChangedRam == {i \in 0..(MEMORY_SIZE - 1) : ram[i] # last.before.ram[i]}

\* the registers and RAM bytes other than the destination cell of the fetched
\* instruction are what they were
OnlyDestChanged ==
    /\ ChangedRegisters \subseteq
          (IF LastDestType = "Register" THEN {last.fetched.operand1_val} ELSE {})
    /\ ChangedRam \subseteq
          (IF LastDestType = "Memory" THEN {last.fetched.operand1_val} ELSE {})

\* C21: Mov, MovImm, JmpAddr, JmpEq, JmpNe, JmpGt and HLT leave the flags byte
\* as it was, however the iteration ends and whether or not the jump is taken;
\* the jumps and HLT leave registers and RAM alone too; a Mov or MovImm that
\* executed has put the source value (Mov) or the operand2 byte (MovImm) in
\* the destination cell, changed no other register or RAM byte, and the
\* program counter is 4 past the instruction
C21_FlagsUntouched ==
    (Fetched /\ LastOp \in {"Mov", "MovImm", "JmpAddr", "JmpEq", "JmpNe", "JmpGt", "HLT"}) =>
        /\ flags = last.before.flags
        /\ LastOp \notin {"Mov", "MovImm"} =>
              (registers = last.before.registers /\ ram = last.before.ram)
        /\ (LastOp \in {"Mov", "MovImm"} /\ last.kind = "executed") =>
              /\ OnlyDestChanged
              /\ DestNow = (IF LastOp = "Mov" THEN SrcBefore ELSE last.fetched.operand2_val)
              /\ program_counter = last.pc + INSTRUCTION_SIZE
        /\ (LastOp \in {"Mov", "MovImm"} /\ last.kind # "executed") => OnlyDestChanged

C21_Witness ==
    /\ Fetched
    /\ LastOp = "Mov"
    /\ last.kind = "executed"
    /\ last.before.flags = 3
    /\ flags = 3
    /\ LastDestType = "Memory"
    /\ LastSrcType = "Register"
    /\ DestBefore = 0
    /\ SrcBefore = 255
    /\ DestNow = 255

C21_WitnessJump ==
    /\ Fetched
    /\ LastOp = "JmpGt"
    /\ last.before.flags = 2
    /\ ~JumpCondition(LastOp, last.before.flags)
    /\ flags = 2
    /\ ram[3] = 255

\* the tokens of the last statement of the text, and the cells its operand
\* tokens name
ModeTokens == LET st == StatementsOf(source) IN split_whitespace(st[Len(st)])
ModeMnemonic == MatchMnemonic(ModeTokens[1])
CellNamed(tok) == CHOOSE cell \in ModeCells : CellTok(cell) = tok
NamedDest == CellNamed(ModeTokens[2])
NamedSrc == CellNamed(ModeTokens[3])
TwoOperands == ModeMnemonic \in {"Mov", "Add", "Sub", "Cmp"}

\* the value the setup statements leave in a cell
SetupValue(operand_type, address_or_index) ==
    IF \E cell \in ModeCells : cell.type = operand_type /\ cell.index = address_or_index
    THEN (CHOOSE cell \in ModeCells :
              cell.type = operand_type /\ cell.index = address_or_index).value
    ELSE 0

\* what the statement is to leave in the cell its destination token names
NamedResult ==
    CASE ModeMnemonic = "Mov" -> NamedSrc.value
      [] ModeMnemonic = "Add" -> (NamedDest.value + NamedSrc.value) % 256
      [] ModeMnemonic = "Sub" -> (NamedDest.value - NamedSrc.value) % 256
      [] ModeMnemonic = "Cmp" -> NamedDest.value
      [] ModeMnemonic = "MovImm" -> ModeImmediate
      [] ModeMnemonic = "Inc" -> (NamedDest.value + 1) % 256
      [] ModeMnemonic = "Dec" -> (NamedDest.value - 1) % 256

\* registers and RAM as the setup statements leave them, and as the statement
\* is to leave them
SetupRegisters == [i \in 0..(REGISTER_COUNT - 1) |-> SetupValue("Register", i)]
SetupRam == [a \in 0..(MEMORY_SIZE - 1) |-> SetupValue("Memory", a)]

RegistersAfter(dest, result) ==
    IF dest.type = "Register" THEN [SetupRegisters EXCEPT ![dest.index] = result]
    ELSE SetupRegisters

RamAfter(dest, result) ==
    IF dest.type = "Memory" THEN [SetupRam EXCEPT ![dest.index] = result] ELSE SetupRam

\* C22: a statement Mov|Add|Sub|Cmp <DEST> <SRC>, MovImm <DEST> <VALUE> or
\* Inc|Dec <OPERAND> is accepted and its mode byte is bit0 for an M destination
\* token plus bit1 for an M source token (bit1 clear for MovImm, Inc and Dec),
\* its operand bytes the numbers of the tokens; the CPU decodes the mode byte
\* back to the kinds of the tokens, and after the instruction the cell the
\* destination token names holds the result computed from the cells the
\* tokens name, every other register and RAM byte holding what it held
C22_ModeRoundTrip ==
    status # "main" =>
        /\ status # "lexer_error"
        /\ Len(program_vector) = 9 * INSTRUCTION_SIZE
        /\ InstrAt(program_vector, 8) =
              << OpcodeAssignment[ModeMnemonic],
                 (IF NamedDest.type = "Memory" THEN 1 ELSE 0)
                    + (IF TwoOperands /\ NamedSrc.type = "Memory" THEN 2 ELSE 0),
                 NamedDest.index,
                 IF TwoOperands THEN NamedSrc.index
                 ELSE IF ModeMnemonic = "MovImm" THEN ModeImmediate ELSE 0 >>
        /\ (last.kind # "none" /\ last.pc = 8 * INSTRUCTION_SIZE) =>
              /\ Fetched
              /\ LastOp = ModeMnemonic
              /\ LastDestType = NamedDest.type
              /\ last.fetched.operand1_val = NamedDest.index
              /\ LastSrcType = (IF TwoOperands THEN NamedSrc.type ELSE "Register")
              /\ TwoOperands => last.fetched.operand2_val = NamedSrc.index
              /\ last.before.registers = SetupRegisters
              /\ last.before.ram = SetupRam
              /\ last.kind = "executed"
              /\ registers = RegistersAfter(NamedDest, NamedResult)
              /\ ram = RamAfter(NamedDest, NamedResult)
              /\ ModeMnemonic = "Cmp" =>
                    /\ is_flag_set(flags, FLAG_ZERO) <=> (NamedDest.value = NamedSrc.value)
                    /\ is_flag_set(flags, FLAG_CARRY) <=> (NamedDest.value < NamedSrc.value)

C22_Witness ==
    /\ source = Join(ModeSetup \o <<Statement(<<MnemonicChars.Sub, MemTok(4), RegTok(3)>>)>>,
                     <<"\n">>)
    /\ Len(program_vector) = 9 * INSTRUCTION_SIZE
    /\ InstrAt(program_vector, 8) = Instr(3, 1, 4, 3)
    /\ last.pc = 32
    /\ last.kind = "executed"
    /\ ram[4] = 91
    /\ ram[3] = 103
    /\ registers[3] = 13

C22_WitnessMemorySource ==
    /\ source = Join(ModeSetup \o <<Statement(<<MnemonicChars.Mov, RegTok(3), MemTok(3)>>)>>,
                     <<"\n">>)
    /\ Len(program_vector) = 9 * INSTRUCTION_SIZE
    /\ InstrAt(program_vector, 8) = Instr(0, 2, 3, 3)
    /\ last.pc = 32
    /\ last.kind = "executed"
    /\ registers[3] = 103

\* the operations that write their destination operand
WritesDest(op) == op \in {"Mov", "MovImm", "Add", "Sub", "Inc", "Dec"}

\* C23: program memory is all zero before the load and from then on the
\* loaded bytes at offset 0 and zero behind them, in every state of the run;
\* an instruction whose destination is the M-operand a changes no register and
\* no RAM byte other than a, also when a is the address of one of the
\* program's own bytes; an instruction whose destination is a register changes
\* no RAM byte; and a read through an M-operand a yields RAM byte a, not the
\* program byte at a
C23_ProgramMemoryReadOnly ==
    /\ ~Loaded => memory = ZeroMemory
    /\ Loaded =>
          \A i \in 0..(MEMORY_SIZE - 1) :
              memory[i] = IF i < Len(program_vector) THEN program_vector[i + 1] ELSE 0
    /\ (Fetched /\ LastDestType = "Memory") =>
          /\ registers = last.before.registers
          /\ ChangedRam \subseteq {last.fetched.operand1_val}
    /\ (Fetched /\ LastDestType = "Register") => ram = last.before.ram
    /\ (Fetched /\ LastOp = "MovImm" /\ last.kind = "executed") =>
          DestNow = last.fetched.operand2_val
    /\ (Fetched /\ LastOp = "Mov" /\ last.kind = "executed") => DestNow = SrcBefore

C23_Witness ==
    /\ Fetched
    /\ LastOp = "MovImm"
    /\ last.kind = "executed"
    /\ LastDestType = "Memory"
    /\ last.fetched.operand1_val = last.pc
    /\ last.fetched.operand2_val = 11
    /\ last.pc > 0
    /\ ram[last.pc] = 11
    /\ memory[last.pc] = 1
    /\ registers = last.before.registers

C23_WitnessRead ==
    /\ Fetched
    /\ LastOp = "Mov"
    /\ last.kind = "executed"
    /\ LastSrcType = "Memory"
    /\ LastDestType = "Register"
    /\ last.fetched.operand2_val = 0
    /\ memory[0] = 1
    /\ ram[0] = 255
    /\ DestNow = 255

\* C24 as claimed: some byte, taken as the address of a memory operand, fails
\* the CPU's check of a read or of a write, which ends the run with an
\* invalid-memory-address error
C24_AsClaimed ==
    \E a \in Byte :
        \/ get_operand_value(CPU, "Memory", a).err = "InvalidMemoryAddress"
        \/ set_operand_value(CPU, "Memory", a, 0).err = "InvalidMemoryAddress"

\* the fetched instruction accesses a memory operand and no register operand
\* out of range
MemoryOperandsOnly ==
    /\ AccessesDest(LastOp)
    /\ LastDestType = "Memory" \/ (AccessesSrc(LastOp) /\ LastSrcType = "Memory")
    /\ ~RegisterOutOfRange

\* C24: no run ends with an invalid-memory-address error: the address of a
\* memory operand is one byte and RAM has 256 bytes, so every byte passes the
\* CPU's check of a read and of a write; an instruction whose operands are
\* memory operands, or registers below 4, raises no operand error, up to
\* address 255; the only operand error a run ends with is the invalid
\* register index
C24_MemoryAddressAlwaysValid ==
    /\ error.kind # "InvalidMemoryAddress"
    /\ \A a \in Byte :
          /\ get_operand_value(CPU, "Memory", a).ok
          /\ set_operand_value(CPU, "Memory", a, 0).ok
    /\ (Fetched /\ MemoryOperandsOnly) => last.kind # "exec_error"
    /\ last.kind = "exec_error" => error.kind = "InvalidRegisterIndex"

C24_Witness ==
    /\ Fetched
    /\ LastOp = "Add"
    /\ LastDestType = "Memory"
    /\ LastSrcType = "Memory"
    /\ last.fetched.operand1_val = 255
    /\ last.fetched.operand2_val = 255
    /\ last.kind = "executed"
    /\ last.before.ram[255] = 255
    /\ ram[255] = 254
    /\ status = "running"

\* C25: the iteration that ends the run with a runtime error changes nothing:
\* the error is an unknown opcode, an incomplete instruction or an invalid
\* register index, and registers, RAM, flags, program memory and the program
\* counter are what they were when the iteration began, the program counter
\* being the address of the instruction that failed
C25_FailedInstructionHasNoEffect ==
    [][ status' = "error" =>
            /\ error'.kind \in {"UnknownOpcode", "IncompleteInstruction", "InvalidRegisterIndex"}
            /\ UNCHANGED <<registers, ram, flags, program_counter, memory>>
            /\ last'.pc = program_counter
            /\ last'.before = CPU ]_vars

C25_Witness ==
    /\ status = "error"
    /\ error.kind = "InvalidRegisterIndex"
    /\ Fetched
    /\ LastOp = "Add"
    /\ LastDestType = "Register"
    /\ last.fetched.operand1_val = 4
    /\ LastSrcType = "Memory"
    /\ last.fetched.operand2_val = 3
    /\ ram[3] = 9
    /\ flags = 3
    /\ program_counter = last.pc
    /\ program_counter = 12

C25_WitnessUnknownOpcode ==
    /\ status = "error"
    /\ error.kind = "UnknownOpcode"
    /\ last.fetched.opcode_val = 200
    /\ flags = 2
    /\ registers[1] = 1
    /\ ram[3] = 9
    /\ program_counter = 12

C25_WitnessIncomplete ==
    /\ status = "error"
    /\ error.kind = "IncompleteInstruction"
    /\ flags = 1
    /\ ram[3] = 9
    /\ program_counter = 8

C25_WitnessMov ==
    /\ status = "error"
    /\ error.kind = "InvalidRegisterIndex"
    /\ Fetched
    /\ LastOp = "Mov"
    /\ LastDestType = "Register"
    /\ last.fetched.operand1_val = 255
    /\ LastSrcType = "Memory"
    /\ last.fetched.operand2_val = 3
    /\ ram[3] = 9

\* the 4 bytes of the program at an address
ProgramBytesAt(t) ==
    [opcode_val |-> program_vector[t + 1], mode_byte |-> program_vector[t + 2],
     operand1_val |-> program_vector[t + 3], operand2_val |-> program_vector[t + 4]]

\* C26: after a taken jump whose target is at or past the program length the
\* next iteration ends the run successfully, with no error, the program
\* counter at the target and nothing else changed; after a taken jump whose
\* target is no multiple of 4 and at least 4 bytes before the program end the
\* next iteration fetches the 4 bytes of the program at the target
C26_JumpPastEndOrMisaligned ==
    [][ (TakenJump(last) /\ status = "running") =>
            /\ last.fetched.operand1_val >= Len(program_vector) =>
                  /\ status' = "ended"
                  /\ error'.kind = "none"
                  /\ program_counter' = last.fetched.operand1_val
                  /\ UNCHANGED <<registers, ram, flags, memory>>
            /\ (/\ last.fetched.operand1_val % INSTRUCTION_SIZE # 0
                /\ last.fetched.operand1_val + INSTRUCTION_SIZE <= Len(program_vector)) =>
                  /\ last'.pc = last.fetched.operand1_val
                  /\ last'.fetched = ProgramBytesAt(last.fetched.operand1_val)
                  /\ status' \notin {"ended", "panic"}
                  /\ error'.kind # "IncompleteInstruction" ]_vars

====
